---- MODULE Spec2Model ----
(***************************************************************************)
(* SignBridge: the real-time prediction pipeline.                          *)
(*                                                                         *)
(* The Predictor (core/predictor.py) is modelled as a record with the      *)
(* fields of the Python object; each of its methods is an operator from    *)
(* the record before the call to the record after it (and the returned     *)
(* value).  The PredictTab handlers (ui/predict_tab.py) are actions that   *)
(* call those operators the way the handlers call the methods.             *)
(*                                                                         *)
(* Keypoint frames are opaque to the predictor (it only stores them and    *)
(* hands them to the classifier), so a frame is identified by its arrival  *)
(* number.  Probabilities and thresholds are integer percentages.          *)
(*                                                                         *)
(* The sequence store (utils/file_ops.py) is modelled as the dataset       *)
(* directory tree: label directories holding sequence directories, each    *)
(* with an optional consolidated file, legacy per-frame files and a        *)
(* preview.  Its functions are operators from the tree before the call to  *)
(* the tree after it and the returned value.                               *)
(***************************************************************************)
EXTENDS Integers, Sequences, FiniteSets, TLC

VARIABLES predictor, is_predicting, result,
          frameNo, pushed, rawLog, boundLabels, calls, lastStable,
          disk, sres, saved, live,
          dm_labels, worker, extract, tab, repair

(* The variables of the prediction pipeline and those of the sequence      *)
(* store.                                                                  *)
predVars == <<predictor, is_predicting, result,
              frameNo, pushed, rawLog, boundLabels, calls, lastStable>>

storeVars == <<disk, sres, saved, live>>

(* The DatasetManager's cached label list, the capture worker, the last    *)
(* landmark extraction, the dataset tab and the repair worker.             *)
appVars == <<dm_labels, worker, extract, tab, repair>>

vars == <<predVars, storeVars, appVars>>

-----------------------------------------------------------------------------
(* Program constants (utils/config.py).                                    *)

SEQUENCE_LENGTH == 30

KEYPOINTS_PER_FRAME == 63

PREDICTION_CONSISTENCY_FRAMES == 3

PREDICTION_CONFIDENCE_THRESHOLD == 80

(* Bounds of the model.                                                    *)

MaxFrames == 36

(* Bound of LatencySpec: frames per session and predict calls per reset. *)
MaxLatencyFrames == 33

-----------------------------------------------------------------------------
(* Values.                                                                 *)

None == "None"

(* What a classifier call yields when it raises: no distribution. *)
Raise == << >>

(* Model files the loader can be pointed at: a loadable model, a path with *)
(* no file, and a file keras cannot load.                                  *)
Paths == {"model.h5", "missing.h5", "corrupt.h5"}

(* Label lists a caller can pass; <<>> stands for both None and [] (both   *)
(* are falsy in "if labels:").                                             *)
LabelLists == {<< >>, <<"A", "B">>, <<"B">>}

(* Threshold slider positions (50..95), among them the default.            *)
Thresholds == {50, PREDICTION_CONFIDENCE_THRESHOLD}

(* Output distributions of the classifier over two classes, among them a   *)
(* tie.                                                                    *)
Probs == {<<95, 5>>, <<5, 95>>, <<80, 20>>, <<50, 50>>}

ClassifierOutcomes == Probs \cup {Raise}

-----------------------------------------------------------------------------
(* Library functions used by the predictor.                                *)

(* A buffer that starts over when it is full. *)
deque_append_restart(d, x, maxlen) ==
    IF Len(d) = maxlen THEN <<x>> ELSE Append(d, x)

(* A full buffer that discards the new item and keeps the old ones. *)
deque_append_drop_newest(d, x, maxlen) ==
    IF Len(d) = maxlen THEN d ELSE Append(d, x)

(* collections.deque(maxlen=n).append(x) *)
deque_append(d, x, maxlen) ==
    IF Len(d) = maxlen THEN Append(Tail(d), x) ELSE Append(d, x)

(* An argmax that keeps the last of several equal maxima. *)
argmax_last(probs) ==
    (CHOOSE i \in 1..Len(probs) :
        /\ \A j \in 1..Len(probs) : probs[j] <= probs[i]
        /\ \A j \in (i + 1)..Len(probs) : probs[j] < probs[i]) - 1

(* np.argmax: 0-based index of the first maximum. *)
argmax(probs) ==
    (CHOOSE i \in 1..Len(probs) :
        /\ \A j \in 1..Len(probs) : probs[j] <= probs[i]
        /\ \A j \in 1..(i - 1) : probs[j] < probs[i]) - 1

(* len(np.unique(xs)) *)
unique_count(xs) == Cardinality({xs[i] : i \in DOMAIN xs})

(* str(i) for a class index *)
str(i) == <<"0", "1", "2", "3">>[i + 1]

(* ModelBuilder.load_model: None when the file is missing or keras raises. *)
ModelBuilder_load_model(model_path) ==
    IF model_path = "model.h5" THEN "keras_model" ELSE None

-----------------------------------------------------------------------------
(* Predictor methods.                                                      *)

Predictor_init ==
    [model |-> None,
     labels |-> << >>,
     sequence |-> << >>,
     predictions |-> << >>,
     current_prediction |-> None,
     current_confidence |-> 0]

(* A reset that forgets to clear the last stable pair. *)
reset_keeps_pair(p) ==
    [p EXCEPT !.sequence = << >>,
              !.predictions = << >>]

reset(p) ==
    [p EXCEPT !.sequence = << >>,
              !.predictions = << >>,
              !.current_prediction = None,
              !.current_confidence = 0]

(* Returns the predictor after the call and the returned bool. *)
load_model(p, model_path, labels) ==
    LET p1 == [p EXCEPT !.model = ModelBuilder_load_model(model_path)] IN
    IF p1.model = None
    THEN [p |-> p1, ok |-> FALSE]
    ELSE LET p2 == IF labels # << >> THEN [p1 EXCEPT !.labels = labels] ELSE p1
         IN  [p |-> reset(p2), ok |-> TRUE]

(* add_keypoints on a buffer created without maxlen. *)
add_keypoints_unbounded(p, keypoints) ==
    [p EXCEPT !.sequence = Append(p.sequence, keypoints)]

add_keypoints(p, keypoints) ==
    [p EXCEPT !.sequence = deque_append(p.sequence, keypoints, SEQUENCE_LENGTH)]

is_model_loaded(p) == p.model # None

get_current_prediction(p) == <<p.current_prediction, p.current_confidence>>

(* The fullness test against the length of the prediction history. *)
sequence_not_full_wrong_length(p) ==
    Len(p.sequence) < PREDICTION_CONSISTENCY_FRAMES

(* The fullness test off by one: a window of L - 1 frames passes. *)
sequence_not_full_off_by_one(p) == Len(p.sequence) < SEQUENCE_LENGTH - 1

(* predict, line 94: the buffer is not full yet. *)
sequence_not_full(p) == Len(p.sequence) < SEQUENCE_LENGTH

(* Agreement of the two most recent results only. *)
consistent_and_confident_last_two(predictions, confidence, threshold) ==
    /\ Len(predictions) >= PREDICTION_CONSISTENCY_FRAMES
    /\ predictions[Len(predictions)] = predictions[Len(predictions) - 1]
    /\ confidence > threshold

(* The threshold test with >= in place of >. *)
consistent_and_confident_ge(predictions, confidence, threshold) ==
    /\ Len(predictions) >= PREDICTION_CONSISTENCY_FRAMES
    /\ unique_count(predictions) = 1
    /\ confidence >= threshold

(* predict, lines 111-116: the history is full, holds one class only, and  *)
(* the confidence of this result is above the threshold.                   *)
consistent_and_confident(predictions, confidence, threshold) ==
    /\ Len(predictions) >= PREDICTION_CONSISTENCY_FRAMES
    /\ unique_count(predictions) = 1
    /\ confidence > threshold

(* predict, line 118: the label emitted for a class index. *)
label_of(labels, predicted_idx) ==
    IF predicted_idx < Len(labels)
    THEN labels[predicted_idx + 1]
    ELSE str(predicted_idx)

(* An except branch that records class 0 for the failed frame. *)
prediction_error_bogus(p) ==
    [p |-> [p EXCEPT !.predictions =
                deque_append(p.predictions, 0, PREDICTION_CONSISTENCY_FRAMES)],
     label |-> None, conf |-> 0, invoked |-> TRUE,
     window |-> p.sequence, raised |-> TRUE]

(* predict, lines 125-127: the except branch; p is the predictor as the    *)
(* try block left it when the classifier raised.                           *)
prediction_error(p) ==
    [p |-> p, label |-> None, conf |-> 0, invoked |-> TRUE,
     window |-> p.sequence, raised |-> TRUE]

(* A no-model branch taken after the frame was pushed. *)
no_model_loaded_pushes(p, keypoints) ==
    [p |-> add_keypoints(p, keypoints), label |-> None, conf |-> 0,
     invoked |-> FALSE, window |-> << >>, raised |-> FALSE]

(* predict, lines 87-88: no model is loaded. *)
no_model_loaded(p, keypoints) ==
    [p |-> p, label |-> None, conf |-> 0, invoked |-> FALSE,
     window |-> << >>, raised |-> FALSE]

(* A stable emission that stores the label and not its confidence. *)
record_stable_label_only(p, label, confidence) ==
    [p EXCEPT !.current_prediction = label]

(* predict, lines 119-120: the stable pair is stored. *)
record_stable(p, label, confidence) ==
    [p EXCEPT !.current_prediction = label,
              !.current_confidence = confidence]

(* predict: out is what self.model.predict does on this call (a            *)
(* distribution, or Raise).  Returns the predictor after the call, the     *)
(* returned pair, and the window handed to the classifier (<< >> when it   *)
(* was not invoked).                                                       *)
predict(p, keypoints, threshold, out) ==
    IF p.model = None
    THEN no_model_loaded(p, keypoints)
    ELSE
    LET p1 == add_keypoints(p, keypoints) IN
    IF sequence_not_full(p1)
    THEN [p |-> p1, label |-> None, conf |-> 0, invoked |-> FALSE,
          window |-> << >>, raised |-> FALSE]
    ELSE IF out = Raise
    THEN prediction_error(p1)
    ELSE
    LET predicted_idx == argmax(out)
        confidence == out[predicted_idx + 1]
        p2 == [p1 EXCEPT !.predictions =
                 deque_append(p1.predictions, predicted_idx,
                              PREDICTION_CONSISTENCY_FRAMES)]
    IN
    IF consistent_and_confident(p2.predictions, confidence, threshold)
    THEN LET label == label_of(p2.labels, predicted_idx)
         IN [p |-> record_stable(p2, label, confidence),
             label |-> label, conf |-> confidence, invoked |-> TRUE,
             window |-> p1.sequence, raised |-> FALSE]
    ELSE [p |-> p2, label |-> None, conf |-> confidence, invoked |-> TRUE,
          window |-> p1.sequence, raised |-> FALSE]

-----------------------------------------------------------------------------
(* The sequence store: values.                                             *)

(* Bounds: sequence indices 0..MaxIndex under each label. *)
MaxIndex == 2

Indices == 0..MaxIndex

(* Label names, in sorted order. *)
LabelOrder == <<"A", "B">>

Labels == {LabelOrder[i] : i \in DOMAIN LabelOrder}

(* np.zeros(63): a keypoint frame is identified by a number, 0 the all-    *)
(* zero frame.                                                             *)
ZeroFrame == 0

(* No file at a path / a file np.load cannot read / a returned None. *)
NoFile == <<-1>>

Corrupt == <<-3>>

NoneSeq == <<-2>>

(* Sequences of L frames handed to save_sequence. *)
SeqX == [i \in 1..SEQUENCE_LENGTH |-> 100 + i]

SeqY == [i \in 1..SEQUENCE_LENGTH |-> 200 + i]

Sequences == {SeqX, SeqY}

(* Legacy per-frame files <frame_idx>.npy of a sequence directory: a       *)
(* function from the frame numbers that have a file to the file's frame.   *)
NoFrames == [i \in {} |-> ZeroFrame]

LegacyFull == [i \in 0..(SEQUENCE_LENGTH - 1) |-> 300 + i]

LegacyMissing5 == [i \in (0..(SEQUENCE_LENGTH - 1)) \ {5} |-> 300 + i]

LegacyOnlyLast == [i \in {SEQUENCE_LENGTH - 1} |-> 300 + i]

LegacyLayouts == {LegacyFull, LegacyMissing5, LegacyOnlyLast}

(* A sequence directory and a label directory that do not exist. *)
NoSeqDir ==
    [exists |-> FALSE, keypoints |-> NoFile, frames |-> NoFrames,
     preview |-> FALSE]

EmptySeqDir == [NoSeqDir EXCEPT !.exists = TRUE]

NoLabelDir == [exists |-> FALSE, seqs |-> [i \in Indices |-> NoSeqDir]]

EmptyLabelDir == [NoLabelDir EXCEPT !.exists = TRUE]

EmptyDisk == [l \in Labels |-> NoLabelDir]

(* Bound of ValidateSpec: sequence indices 0..MaxValidateIndex under each  *)
(* label, enough for labels below, at and above the minimum of             *)
(* validate_dataset.                                                       *)
MaxValidateIndex == 5

WideIndices == 0..MaxValidateIndex

WideEmptyDisk ==
    [l \in Labels |->
        [exists |-> FALSE, seqs |-> [i \in WideIndices |-> NoSeqDir]]]

-----------------------------------------------------------------------------
(* The sequence store: functions of utils/file_ops.py.  d is the dataset   *)
(* directory; a function that writes returns the directory after the call  *)
(* in field d.                                                             *)

(* A label directory after it was removed or renamed away. *)
removed(label_dir) ==
    [exists |-> FALSE, seqs |-> [i \in DOMAIN label_dir.seqs |-> NoSeqDir]]

get_dataset_labels(d) == SelectSeq(LabelOrder, LAMBDA l : d[l].exists)

(* os.makedirs(label_path, exist_ok=True) *)
create_label_directory(d, label) ==
    [d |-> [d EXCEPT ![label].exists = TRUE], ok |-> TRUE]

(* A rename that replaces an existing target directory. *)
rename_label_replace(d, old_label, new_label, os_error) ==
    IF ~d[old_label].exists THEN [d |-> d, ok |-> FALSE]
    ELSE IF os_error THEN [d |-> d, ok |-> FALSE]
    ELSE IF old_label = new_label THEN [d |-> d, ok |-> TRUE]
    ELSE [d |-> [d EXCEPT ![new_label] = d[old_label],
                          ![old_label] = removed(d[old_label])],
          ok |-> TRUE]

(* os_error: os.rename raises. *)
rename_label(d, old_label, new_label, os_error) ==
    IF ~d[old_label].exists THEN [d |-> d, ok |-> FALSE]
    ELSE IF d[new_label].exists THEN [d |-> d, ok |-> FALSE]
    ELSE IF os_error THEN [d |-> d, ok |-> FALSE]
    ELSE [d |-> [d EXCEPT ![new_label] = d[old_label],
                          ![old_label] = removed(d[old_label])],
          ok |-> TRUE]

(* os_error: shutil.rmtree raises before it removes anything. *)
delete_label(d, label, os_error) ==
    IF d[label].exists /\ os_error THEN [d |-> d, ok |-> FALSE]
    ELSE [d |-> [d EXCEPT ![label] = removed(d[label])], ok |-> TRUE]

(* The sequence directories under a label, by index. *)
get_label_sequences(d, label) ==
    IF ~d[label].exists THEN {}
    ELSE {i \in DOMAIN d[label].seqs : d[label].seqs[i].exists}

(* A count taken as the highest index plus one. *)
get_sequence_count_next_index(d, label) ==
    LET seqs == get_label_sequences(d, label) IN
    IF seqs = {} THEN 0
    ELSE (CHOOSE i \in seqs : \A j \in seqs : j <= i) + 1

get_sequence_count(d, label) == Cardinality(get_label_sequences(d, label))

(* A deletion that reports failure when the sequence is already absent. *)
delete_sequence_must_exist(d, label, sequence_idx, os_error) ==
    IF ~d[label].seqs[sequence_idx].exists \/ os_error
    THEN [d |-> d, ok |-> FALSE]
    ELSE [d |-> [d EXCEPT ![label].seqs[sequence_idx] = NoSeqDir],
          ok |-> TRUE]

(* os_error: shutil.rmtree raises before it removes anything. *)
delete_sequence(d, label, sequence_idx, os_error) ==
    IF d[label].seqs[sequence_idx].exists /\ os_error
    THEN [d |-> d, ok |-> FALSE]
    ELSE [d |-> [d EXCEPT ![label].seqs[sequence_idx] = NoSeqDir],
          ok |-> TRUE]

(* os.makedirs(sequence_path, exist_ok=True) *)
makedirs(d, label, sequence_idx) ==
    [d EXCEPT ![label].exists = TRUE,
              ![label].seqs[sequence_idx].exists = TRUE]

(* A save in the legacy layout: one file per frame, the consolidated file  *)
(* left as it is.                                                          *)
save_sequence_per_frame(d, label, sequence_idx, keypoints_sequence, outcome) ==
    IF outcome # "ok" THEN [d |-> d, ok |-> FALSE]
    ELSE [d |-> [makedirs(d, label, sequence_idx)
                    EXCEPT ![label].seqs[sequence_idx].frames =
                        [i \in 0..(Len(keypoints_sequence) - 1) |->
                            keypoints_sequence[i + 1]]],
          ok |-> TRUE]

(* outcome: "ok"; "mkdir_error", os.makedirs raises; "array_error",        *)
(* np.array raises; "write_error", np.save raises and leaves a file that   *)
(* cannot be read.                                                         *)
save_sequence(d, label, sequence_idx, keypoints_sequence, outcome) ==
    IF outcome = "mkdir_error" THEN [d |-> d, ok |-> FALSE]
    ELSE
    LET d1 == makedirs(d, label, sequence_idx) IN
    IF outcome = "array_error" THEN [d |-> d1, ok |-> FALSE]
    ELSE IF outcome = "write_error"
    THEN [d |-> [d1 EXCEPT ![label].seqs[sequence_idx].keypoints = Corrupt],
          ok |-> FALSE]
    ELSE [d |-> [d1 EXCEPT ![label].seqs[sequence_idx].keypoints =
                               keypoints_sequence],
          ok |-> TRUE]

(* save_sequence cut off by the end of the process: before os.makedirs,    *)
(* between os.makedirs and np.save, inside np.save (the file is opened for *)
(* writing, which empties it, and not all of the array is written), or     *)
(* after np.save and before the return.                                    *)
InterruptPoints == {"before_makedirs", "before_save", "in_save", "after_save"}

save_sequence_interrupted(d, label, sequence_idx, keypoints_sequence, point) ==
    LET d1 == makedirs(d, label, sequence_idx) IN
    CASE point = "before_makedirs" -> d
      [] point = "before_save" -> d1
      [] point = "in_save" ->
            [d1 EXCEPT ![label].seqs[sequence_idx].keypoints = Corrupt]
      [] OTHER ->
            [d1 EXCEPT ![label].seqs[sequence_idx].keypoints =
                           keypoints_sequence]

(* A non-empty image is given; cv2.imwrite of the thumbnail. *)
save_preview_image(d, label, sequence_idx) ==
    [d |-> [makedirs(d, label, sequence_idx)
               EXCEPT ![label].seqs[sequence_idx].preview = TRUE],
     ok |-> TRUE]

(* A legacy load that leaves out the frames that have no file. *)
legacy_frames_skip_missing(files, sequence_length) ==
    LET present == {i \in 0..(sequence_length - 1) : i \in DOMAIN files}
        nth(k) == CHOOSE i \in present :
                      Cardinality({j \in present : j < i}) = k - 1
    IN [k \in 1..Cardinality(present) |-> files[nth(k)]]

(* load_sequence, lines 228-236: the frames of the legacy layout, a        *)
(* missing frame file replaced by zeros.                                   *)
legacy_frames(files, sequence_length) ==
    [i \in 1..sequence_length |->
        IF (i - 1) \in DOMAIN files THEN files[i - 1] ELSE ZeroFrame]

(* A not-found branch that creates the sequence directory. *)
load_not_found_mkdir(d, label, sequence_idx) ==
    [d |-> makedirs(d, label, sequence_idx), ret |-> NoneSeq]

(* load_sequence, lines 219-220: the sequence directory does not exist. *)
load_not_found(d, label, sequence_idx) == [d |-> d, ret |-> NoneSeq]

(* An auto-consolidation whose failure makes the load fail. *)
auto_consolidate_strict(d, label, sequence_idx, arr, write) ==
    IF write = "ok"
    THEN [d |-> [d EXCEPT ![label].seqs[sequence_idx].keypoints = arr],
          ret |-> arr]
    ELSE [d |-> d, ret |-> NoneSeq]

(* load_sequence, lines 240-245: the auto-consolidation of a legacy        *)
(* sequence.  write is what its np.save does: "ok"; "no_file", it raises   *)
(* and leaves no file; "partial", it raises and leaves a file that cannot  *)
(* be read.                                                                *)
auto_consolidate(d, label, sequence_idx, arr, write) ==
    [d |-> CASE write = "ok" ->
                  [d EXCEPT ![label].seqs[sequence_idx].keypoints = arr]
             [] write = "partial" ->
                  [d EXCEPT ![label].seqs[sequence_idx].keypoints = Corrupt]
             [] OTHER -> d,
     ret |-> arr]

(* A read of the consolidated file that returns whatever the file holds. *)
load_consolidated_unchecked(file) == file

(* load_sequence, lines 224-225 and 246-248: np.load of a file that cannot *)
(* be read raises, and load_sequence returns None.                         *)
load_consolidated(file) == IF file = Corrupt THEN NoneSeq ELSE file

(* A legacy load that takes every directory as holding frame files. *)
frame_file_found_always(files, sequence_length) == TRUE

(* load_sequence, lines 229-234 and 238: found_any, some frame file        *)
(* <frame_idx>.npy with frame_idx in range(sequence_length) exists.        *)
frame_file_found(files, sequence_length) ==
    \E i \in 0..(sequence_length - 1) : i \in DOMAIN files

(* A test for the consolidated file that gives way to legacy frame files. *)
has_consolidated_unless_legacy(dir) ==
    dir.keypoints # NoFile /\ dir.frames = NoFrames

(* load_sequence, line 224: os.path.exists(fast_path) *)
has_consolidated(dir) == dir.keypoints # NoFile

load_sequence(d, label, sequence_idx, sequence_length, write) ==
    LET dir == d[label].seqs[sequence_idx] IN
    IF ~dir.exists THEN load_not_found(d, label, sequence_idx)
    ELSE IF has_consolidated(dir)
    THEN [d |-> d, ret |-> load_consolidated(dir.keypoints)]
    ELSE
    LET found_any == frame_file_found(dir.frames, sequence_length)
        arr == legacy_frames(dir.frames, sequence_length)
    IN
    IF ~found_any THEN [d |-> d, ret |-> NoneSeq]
    ELSE auto_consolidate(d, label, sequence_idx, arr, write)

-----------------------------------------------------------------------------
(* The callers of the store: DatasetManager (core/dataset_manager.py) and  *)
(* the browser tab (ui/browser_tab.py).                                    *)

(* DatasetManager.save_captured_sequence: the index is the sequence count  *)
(* of the label; preview_image: an image is given (not None).              *)
save_captured_sequence(d, label, keypoints_sequence, preview_image, outcome) ==
    LET sequence_idx == get_sequence_count(d, label)
        r == save_sequence(d, label, sequence_idx, keypoints_sequence, outcome)
    IN IF r.ok
       THEN [d |-> IF preview_image
                   THEN save_preview_image(r.d, label, sequence_idx).d
                   ELSE r.d,
             ok |-> TRUE, idx |-> sequence_idx]
       ELSE [d |-> r.d, ok |-> FALSE, idx |-> sequence_idx]

(* DatasetManager.add_label: the manager's label list and the dataset      *)
(* directory after the call, and the returned bool.                        *)
add_label(self_labels, d, label) ==
    IF \E n \in DOMAIN self_labels : self_labels[n] = label
    THEN [labels |-> self_labels, d |-> d, ok |-> FALSE]
    ELSE LET r == create_label_directory(d, label) IN
         IF r.ok
         THEN [labels |-> get_dataset_labels(r.d), d |-> r.d, ok |-> TRUE]
         ELSE [labels |-> self_labels, d |-> r.d, ok |-> FALSE]

(* get_dataset_stats, lines 166-169: one pass of the loop over the labels. *)
(* order is the insertion order of the 'labels' dictionary.                *)
RECURSIVE stats_loop(_, _, _, _)

(* A pass of the loop that sets the total instead of adding to it. *)
add_label_stats_overwrite(stats, label, seq_count) ==
    [stats EXCEPT !.labels = (label :> seq_count) @@ @,
                  !.order = Append(@, label),
                  !.total_sequences = seq_count]

add_label_stats(stats, label, seq_count) ==
    [stats EXCEPT !.labels = (label :> seq_count) @@ @,
                  !.order = Append(@, label),
                  !.total_sequences = @ + seq_count]

stats_loop(d, label_list, n, stats) ==
    IF n > Len(label_list) THEN stats
    ELSE stats_loop(d, label_list, n + 1,
                    add_label_stats(stats, label_list[n],
                                    get_sequence_count(d, label_list[n])))

EmptyStats(total_labels) ==
    [total_labels |-> total_labels, labels |-> [l \in {} |-> 0],
     order |-> << >>, total_sequences |-> 0]

get_dataset_stats(d) ==
    LET label_list == get_dataset_labels(d) IN
    stats_loop(d, label_list, 1, EmptyStats(Len(label_list)))

(* validate_dataset, line 161 *)
min_sequences == 5

(* A minimum test that also rejects a label with exactly the minimum. *)
too_few_sequences_inclusive(count) == count <= min_sequences

(* validate_dataset, line 163 *)
too_few_sequences(count) == count < min_sequences

(* Statistics taken over the manager's cached label list. *)
validation_stats_cached(self_labels, d) ==
    stats_loop(d, self_labels, 1, EmptyStats(Len(self_labels)))

(* validate_dataset, line 152: self.get_stats(), which reads the dataset   *)
(* directory and not self.labels.                                          *)
validation_stats(self_labels, d) == get_dataset_stats(d)

Validation(ok, kind, label, count, stats) ==
    [ok |-> ok, kind |-> kind, label |-> label, count |-> count,
     minimum |-> min_sequences, total_labels |-> stats.total_labels,
     total_sequences |-> stats.total_sequences]

(* DatasetManager.validate_dataset: the returned (is_valid, message), the  *)
(* message by its kind and the values it carries.                          *)
validate_dataset(self_labels, d) ==
    LET stats == validation_stats(self_labels, d)
        below == SelectSeq(stats.order,
                           LAMBDA l : too_few_sequences(stats.labels[l]))
    IN
    IF stats.total_labels = 0
    THEN Validation(FALSE, "no_labels", "", 0, stats)
    ELSE IF stats.total_labels < 2
    THEN Validation(FALSE, "too_few_labels", "", 0, stats)
    ELSE IF below # << >>
    THEN Validation(FALSE, "too_few_sequences", below[1],
                    stats.labels[below[1]], stats)
    ELSE Validation(TRUE, "valid", "", 0, stats)

(* BrowserTab.refresh_sequences: the indices put in the sequence list. *)
refresh_sequences(d, label) ==
    {<<label, i>> : i \in 0..(get_sequence_count(d, label) - 1)}

(* DatasetManager.load_all_data, lines 124-133: the keys it hands to       *)
(* load_sequence.                                                          *)
load_all_data_keys(d) ==
    LET labels == get_dataset_labels(d) IN
    UNION { {<<labels[n], seq_idx>> :
                seq_idx \in 0..(get_sequence_count(d, labels[n]) - 1)} :
            n \in DOMAIN labels }

(* load_all_data, line 121: label_to_idx *)
label_to_idx(label_list, label) ==
    (CHOOSE n \in DOMAIN label_list : label_list[n] = label) - 1

(* load_all_data, lines 124-133: the keys of the sequences appended to     *)
(* 'sequences', in the order of the two loops, from label number n on.     *)
RECURSIVE load_all_data_samples(_, _, _, _)
load_all_data_samples(d, label_list, n, write) ==
    IF n > Len(label_list) THEN << >>
    ELSE
    LET num_sequences == get_sequence_count(d, label_list[n])
        tried == [k \in 1..num_sequences |-> <<label_list[n], k - 1>>]
    IN SelectSeq(tried,
                 LAMBDA key : load_sequence(d, key[1], key[2],
                                  SEQUENCE_LENGTH, write).ret # NoneSeq)
       \o load_all_data_samples(d, label_list, n + 1, write)

(* DatasetManager.load_all_data.  d is the dataset directory after the     *)
(* call: each load touches the directory of its own key only.  samples are *)
(* the keys of the loaded sequences in order, X their frames, y their      *)
(* label indices, labels the returned list; X and y are empty where the    *)
(* code returns None for them.                                             *)
load_all_data(d, write) ==
    LET keys == load_all_data_keys(d)
        label_list == get_dataset_labels(d)
        samples == load_all_data_samples(d, label_list, 1, write)
    IN
    [samples |-> samples,
     X |-> [n \in DOMAIN samples |->
              load_sequence(d, samples[n][1], samples[n][2],
                            SEQUENCE_LENGTH, write).ret],
     y |-> [n \in DOMAIN samples |-> label_to_idx(label_list, samples[n][1])],
     labels |-> label_list,
     d |-> [l \in Labels |->
              [d[l] EXCEPT !.seqs =
                  [i \in Indices |->
                      IF <<l, i>> \in keys
                      THEN load_sequence(d, l, i, SEQUENCE_LENGTH, write).d[l].seqs[i]
                      ELSE d[l].seqs[i]]]],
     keys |-> keys,
     loaded |-> {k \in keys :
                   load_sequence(d, k[1], k[2], SEQUENCE_LENGTH, write).ret # NoneSeq}]

-----------------------------------------------------------------------------
(* The sequence store: state.                                              *)
(*   disk   the dataset directory                                          *)
(*   sres   the last store call: its arguments, what it returned, the      *)
(*          I/O outcome it met (how), and for an enumeration the           *)
(*          <<label, index>> pairs it listed or tried to load              *)
(* History variables:                                                      *)
(*   saved  per key, the frames given to the last successful               *)
(*          save_sequence call of StoreSpec for that key (NoFile when a    *)
(*          later save left an unreadable file or there was none)          *)
(*   live   the <<label, index>> keys whose sequence directory a call      *)
(*          created (or the dataset held at the start) and no call has     *)
(*          removed since                                                  *)

NoStoreResult ==
    [op |-> "none", label |-> "", other |-> "", idx |-> 0, ok |-> TRUE,
     ret |-> NoneSeq, how |-> "", listed |-> {}]

NothingSaved == [l \in Labels |-> [i \in Indices |-> NoFile]]

-----------------------------------------------------------------------------
(* Landmark extraction (core/image_capture.py).                            *)

(* Bound: landmark coordinates 1..MaxCoord. *)
MaxCoord == 5

(* A hand of MediaPipe Hands has 21 landmarks. *)
HAND_LANDMARKS == 21

(* A detected hand: landmark j at <<x + j, y + j, x + y>>. *)
Hand(x, y) == [j \in 1..HAND_LANDMARKS |-> <<x + j, y + j, x + y>>]

Hands == {Hand(x, y) : x \in 1..MaxCoord, y \in 1..MaxCoord}

(* What hands.process returned: nothing (is_none), a result whose          *)
(* multi_hand_landmarks is None (landmarks_none) or a list of hands.       *)
NoResults ==
    [is_none |-> TRUE, landmarks_none |-> TRUE, multi_hand_landmarks |-> << >>]

DetectionResults ==
    {NoResults}
    \cup {[is_none |-> FALSE, landmarks_none |-> TRUE,
            multi_hand_landmarks |-> << >>]}
    \cup {[is_none |-> FALSE, landmarks_none |-> FALSE,
            multi_hand_landmarks |-> hs] :
              hs \in {<< >>} \cup {<<h>> : h \in Hands}
                     \cup {<<h1, h2>> : h1 \in Hands, h2 \in Hands}}

(* np.zeros(n) *)
zeros(n) == [i \in 1..n |-> 0]

(* keypoints.extend([landmark.x, landmark.y, landmark.z]) for each         *)
(* landmark of the hand.                                                   *)
flatten(hand) ==
    [i \in 1..(3 * Len(hand)) |-> hand[((i - 1) \div 3) + 1][((i - 1) % 3) + 1]]

(* `results and results.multi_hand_landmarks` *)
hand_detected(results) ==
    /\ ~results.is_none
    /\ ~results.landmarks_none
    /\ Len(results.multi_hand_landmarks) > 0

(* An extraction that returns None (written << >>) when no hand is         *)
(* detected.                                                               *)
extract_keypoints_or_none(results) ==
    IF hand_detected(results)
    THEN flatten(results.multi_hand_landmarks[1])
    ELSE << >>

extract_keypoints(results) ==
    IF hand_detected(results)
    THEN flatten(results.multi_hand_landmarks[1])
    ELSE zeros(KEYPOINTS_PER_FRAME)

NoExtraction == [done |-> FALSE, results |-> NoResults, keypoints |-> << >>]

-----------------------------------------------------------------------------
(* The capture worker (ui/dataset_tab.py).                                 *)

(* Bound: the sequences asked of one capture run (the spin box allows     *)
(* 1..100).                                                                *)
MaxSequences == 2

(* capture_sequence: the frame at which cap.read() first fails; L when     *)
(* every read succeeds.                                                    *)
ReadFailures == {0, SEQUENCE_LENGTH - 1}

(* DatasetTab.capture_worker is None.  pc is the worker's position in run: *)
(* "check" at the head of the loop, "capture" before capture_sequence,     *)
(* "save" before save_captured_sequence, "done" after finished is emitted. *)
(* frames is len(frames), finished the emitted outcome.                    *)
(* log is the history of the run: the signals the worker emitted, in      *)
(* order (progress with k, finished with 1 for True and 0 for False,       *)
(* frame_ready once per captured sequence with the number of frames), and  *)
(* between them the outcomes of its saves ("saved", "save_failed").        *)
(* delivered: the tab has handled the finished signal.                     *)
NoWorker ==
    [pc |-> "none", is_running |-> FALSE, seq_idx |-> 0, num_sequences |-> 0,
     keypoints_list |-> << >>, frames |-> 0, finished |-> "",
     log |-> << >>, delivered |-> FALSE]

(* CaptureWorker.__init__ *)
NewWorker(num_sequences) ==
    [NoWorker EXCEPT !.pc = "check", !.is_running = TRUE,
                     !.num_sequences = num_sequences]

(* signal.emit(...), and a note of a save's outcome in the history. *)
emit(w, sig, k) == [w EXCEPT !.log = Append(@, [sig |-> sig, k |-> k])]

(* CaptureWorker.run, lines 36-40 and 63: the head of the loop. *)
worker_check(w) ==
    IF w.seq_idx >= w.num_sequences
    THEN [emit(w, "finished", 1) EXCEPT !.pc = "done", !.finished = "ok"]
    ELSE IF ~w.is_running
    THEN [emit(w, "finished", 0) EXCEPT !.pc = "done",
                                        !.finished = "cancelled"]
    ELSE [w EXCEPT !.pc = "capture"]

(* CaptureWorker.run, lines 45-50: the frames of the sequence are emitted. *)
frames_ready(w, keypoints_list) ==
    LET w1 == IF Len(keypoints_list) > 0
              THEN emit(w, "frame_ready", Len(keypoints_list)) ELSE w
    IN [w1 EXCEPT !.pc = "save", !.keypoints_list = keypoints_list,
                  !.frames = Len(keypoints_list)]

(* CaptureWorker.run, lines 65-67: an exception ends the run. *)
worker_except(w) ==
    [emit(w, "finished", 0) EXCEPT !.pc = "done", !.finished = "failed"]

(* A run that goes on after a failed save as after a successful one. *)
after_save_ignores_failure(w, ok) ==
    [emit(w, "progress", w.seq_idx + 1)
        EXCEPT !.pc = "check", !.seq_idx = @ + 1,
               !.keypoints_list = << >>, !.frames = 0]

(* CaptureWorker.run, lines 56-60: after save_captured_sequence returned   *)
(* ok.                                                                     *)
after_save(w, ok) ==
    IF ok
    THEN [emit(w, "progress", w.seq_idx + 1)
             EXCEPT !.pc = "check", !.seq_idx = @ + 1,
                    !.keypoints_list = << >>, !.frames = 0]
    ELSE [emit(w, "finished", 0)
             EXCEPT !.pc = "done", !.finished = "failed",
                    !.keypoints_list = << >>, !.frames = 0]

(* Bound: the loose images lying in a label folder when a repair starts.   *)
MaxLooseImages == 1

(* BrowserTab.repair_worker does not exist.  pc is the worker's position   *)
(* in run: "scan" before the loose images of the label folder are listed,  *)
(* "import" in the loop over them, "existing" before the pass over the     *)
(* sequence directories, "done" after finished is emitted.  todo are the   *)
(* loose images still to import, written the indices the run saved a       *)
(* sequence to.                                                            *)
NoRepair == [pc |-> "none", todo |-> 0, next_idx |-> 0, written |-> {}]

(* The sequence the repair worker saves for an image: the image's          *)
(* keypoints, L times.                                                     *)
SeqR == [i \in 1..SEQUENCE_LENGTH |-> 400]

(* RepairDatasetWorker.run, lines 150-159: the next index is one above the *)
(* highest sequence directory of the label.                                *)
repair_next_idx(d, label) ==
    LET indices == get_label_sequences(d, label) IN
    IF indices = {} THEN 0
    ELSE (CHOOSE i \in indices : \A j \in indices : j <= i) + 1

(* RepairDatasetWorker.run, lines 161-186: one loose image is imported as  *)
(* a sequence with its preview.                                            *)
repair_import(d, label, next_idx) ==
    save_preview_image(save_sequence(d, label, next_idx, SeqR, "ok").d,
                       label, next_idx).d

(* RepairDatasetWorker.run, lines 189-216: the sequence directories that   *)
(* hold a preview image and no keypoints.npy.                              *)
repair_existing_keys(d, label) ==
    {i \in get_label_sequences(d, label) :
        d[label].seqs[i].keypoints = NoFile /\ d[label].seqs[i].preview}

(* RepairDatasetWorker.run, lines 217-222: each of them gets a sequence.   *)
RECURSIVE repair_existing(_, _, _)
repair_existing(d, label, keys) ==
    IF keys = {} THEN d
    ELSE LET i == CHOOSE k \in keys : TRUE IN
         repair_existing(save_sequence(d, label, i, SeqR, "ok").d, label,
                         keys \ {i})

(* The dataset tab: camera, the tab's ImageCapture holds an opened         *)
(* capture; preview_timer, the timer is active; capture_btn and            *)
(* start_camera_btn, the button is enabled; phase, "open", "closing"       *)
(* while cleanup waits for the worker, "closed" after cleanup; tick, the   *)
(* parity of the number of preview frames read.                            *)
IdleTab ==
    [camera |-> FALSE, preview_timer |-> FALSE, capture_btn |-> FALSE,
     start_camera_btn |-> TRUE, phase |-> "open", tick |-> 0]

(* DatasetTab.toggle_camera; opened: cv2.VideoCapture could be opened. *)
toggle_camera(t, opened) ==
    IF ~t.camera
    THEN IF opened
         THEN [t EXCEPT !.camera = TRUE, !.preview_timer = TRUE,
                        !.capture_btn = TRUE]
         ELSE t
    ELSE [t EXCEPT !.preview_timer = FALSE, !.camera = FALSE,
                   !.capture_btn = FALSE]

(* A start of a capture that leaves the preview timer running. *)
start_capture_controls_timer_runs(t) ==
    [t EXCEPT !.capture_btn = FALSE, !.start_camera_btn = FALSE]

(* DatasetTab.start_capture, lines 311-317: the controls are disabled and  *)
(* the preview timer is stopped.                                           *)
start_capture_controls(t) ==
    [t EXCEPT !.capture_btn = FALSE, !.start_camera_btn = FALSE,
              !.preview_timer = FALSE]

(* DatasetTab.on_capture_finished, lines 338-345 *)
on_capture_finished(t) ==
    [t EXCEPT !.capture_btn = TRUE, !.start_camera_btn = TRUE,
              !.preview_timer = IF t.camera THEN TRUE ELSE @]

(* DatasetTab.cleanup, lines 379-380, after the worker was waited for. *)
cleanup(t) ==
    [t EXCEPT !.preview_timer = FALSE, !.camera = FALSE, !.phase = "closed"]

(* ImageCapture.capture_sequence: the keypoints of the frames read before  *)
(* the first failed read; seq is what the camera shows.                    *)
capture_sequence(seq, num_frames, fail) ==
    SubSeq(seq, 1, IF fail < num_frames THEN fail ELSE num_frames)

-----------------------------------------------------------------------------
(* State.                                                                  *)
(*   predictor      the Predictor object owned by the prediction tab       *)
(*   is_predicting  PredictTab.is_predicting (the predict timer runs       *)
(*                  exactly while it is TRUE)                              *)
(*   result         the last Predictor call: what it returned, and for a   *)
(*                  predict call the threshold given, whether the          *)
(*                  classifier was invoked, the window handed to it and    *)
(*                  what it did (out)                                      *)
(* History variables, which the program does not hold:                     *)
(*   frameNo        frames handed to add_keypoints since the current       *)
(*                  session began (prediction started from the tab, or a   *)
(*                  model loaded successfully); a frame is identified by   *)
(*                  its arrival number in its session                      *)
(*   pushed         frames handed to add_keypoints since the last reset()  *)
(*   rawLog         raw class indices classified since the last reset()    *)
(*   boundLabels    label list given to the last successful load_model     *)
(*   calls          predict calls made since the last reset(), counted in  *)
(*                  LatencySpec only                                       *)
(*   lastStable     the (label, confidence) of the last predict call that  *)
(*                  returned a label since the last reset(), NoPair when   *)
(*                  there was none                                         *)

NoResult ==
    [op |-> "none", ok |-> TRUE, label |-> None, conf |-> 0,
     invoked |-> FALSE, window |-> << >>, raised |-> FALSE, threshold |-> 0,
     out |-> << >>]

NoPair == <<None, 0>>

Init ==
    /\ predictor = Predictor_init
    /\ is_predicting = FALSE
    /\ result = NoResult
    /\ frameNo = 0
    /\ pushed = 0
    /\ rawLog = << >>
    /\ boundLabels = << >>
    /\ calls = 0
    /\ lastStable = NoPair
    /\ disk = EmptyDisk
    /\ sres = NoStoreResult
    /\ saved = NothingSaved
    /\ live = {}
    /\ dm_labels = << >>
    /\ worker = NoWorker
    /\ extract = NoExtraction
    /\ tab = IdleTab
    /\ repair = NoRepair

(* One call of Predictor.predict on the next camera frame. *)
PredictCall(threshold, out) ==
    LET r == predict(predictor, frameNo + 1, threshold, out)
        stored == is_model_loaded(predictor)
        classified == r.invoked /\ ~r.raised
    IN
    /\ predictor' = r.p
    /\ result' = [op |-> "predict", ok |-> TRUE, label |-> r.label,
                  conf |-> r.conf, invoked |-> r.invoked,
                  window |-> r.window, raised |-> r.raised,
                  threshold |-> threshold,
                  out |-> IF r.invoked THEN out ELSE << >>]
    /\ frameNo' = IF stored THEN frameNo + 1 ELSE frameNo
    /\ pushed' = IF stored THEN pushed + 1 ELSE pushed
    /\ rawLog' = IF classified THEN Append(rawLog, argmax(out)) ELSE rawLog
    /\ lastStable' = IF r.label # None THEN <<r.label, r.conf>> ELSE lastStable
    /\ UNCHANGED boundLabels

(* One call of Predictor.load_model. *)
LoadCall(model_path, labels) ==
    LET r == load_model(predictor, model_path, labels) IN
    /\ predictor' = r.p
    /\ result' = [NoResult EXCEPT !.op = "load_model", !.ok = r.ok]
    /\ IF r.ok
       THEN /\ frameNo' = 0
            /\ pushed' = 0
            /\ rawLog' = << >>
            /\ boundLabels' = labels
            /\ lastStable' = NoPair
       ELSE UNCHANGED <<frameNo, pushed, rawLog, boundLabels, lastStable>>

(* One call of Predictor.reset. *)
ResetCall ==
    /\ predictor' = reset(predictor)
    /\ result' = [NoResult EXCEPT !.op = "reset"]
    /\ pushed' = 0
    /\ rawLog' = << >>
    /\ lastStable' = NoPair
    /\ UNCHANGED <<frameNo, boundLabels>>

(* One call of Predictor.add_keypoints on the next camera frame. *)
AddKeypointsCall ==
    /\ predictor' = add_keypoints(predictor, frameNo + 1)
    /\ result' = NoResult
    /\ frameNo' = frameNo + 1
    /\ pushed' = pushed + 1
    /\ UNCHANGED <<rawLog, boundLabels, lastStable>>

-----------------------------------------------------------------------------
(* The Predictor's public methods, called by any client.                   *)

LoadModel ==
    /\ \E model_path \in Paths, labels \in LabelLists :
           LoadCall(model_path, labels)
    /\ UNCHANGED <<is_predicting, calls>>
    /\ UNCHANGED <<storeVars, appVars>>

Reset ==
    /\ ResetCall
    /\ UNCHANGED <<is_predicting, calls>>
    /\ UNCHANGED <<storeVars, appVars>>

AddKeypoints ==
    /\ frameNo < MaxFrames
    /\ AddKeypointsCall
    /\ UNCHANGED <<is_predicting, calls>>
    /\ UNCHANGED <<storeVars, appVars>>

Predict ==
    /\ frameNo < MaxFrames
    /\ \E threshold \in Thresholds, out \in ClassifierOutcomes :
           PredictCall(threshold, out)
    /\ UNCHANGED <<is_predicting, calls>>
    /\ UNCHANGED <<storeVars, appVars>>

-----------------------------------------------------------------------------
(* The PredictTab handlers.  Their early returns (no labels in the         *)
(* dataset, file dialog cancelled, no model loaded, camera not opened, no  *)
(* frame read) change nothing and are the guards below.                    *)

(* PredictTab.load_model with the default model file or a selected one;    *)
(* labels is the non-empty list of the tab's DatasetManager.               *)
TabLoadModel ==
    /\ \E model_path \in Paths, labels \in LabelLists \ {<< >>} :
           LoadCall(model_path, labels)
    /\ UNCHANGED <<is_predicting, calls>>
    /\ UNCHANGED <<storeVars, appVars>>

(* A start branch without the call of predictor.reset(). *)
TogglePredictionStart_no_reset ==
    /\ ~is_predicting
    /\ is_model_loaded(predictor)
    /\ is_predicting' = TRUE
    /\ result' = NoResult
    /\ frameNo' = 0
    /\ UNCHANGED <<predictor, pushed, rawLog, boundLabels, calls, lastStable>>
    /\ UNCHANGED <<storeVars, appVars>>

(* PredictTab.toggle_prediction, start branch. *)
TogglePredictionStart ==
    /\ ~is_predicting
    /\ is_model_loaded(predictor)
    /\ is_predicting' = TRUE
    /\ predictor' = reset(predictor)
    /\ result' = NoResult
    /\ frameNo' = 0
    /\ pushed' = 0
    /\ rawLog' = << >>
    /\ lastStable' = NoPair
    /\ UNCHANGED <<boundLabels, calls>>
    /\ UNCHANGED <<storeVars, appVars>>

(* PredictTab.toggle_prediction, stop branch. *)
TogglePredictionStop ==
    /\ is_predicting
    /\ is_predicting' = FALSE
    /\ result' = NoResult
    /\ UNCHANGED <<predictor, frameNo, pushed, rawLog, boundLabels, calls,
                   lastStable>>
    /\ UNCHANGED <<storeVars, appVars>>

(* PredictTab.update_prediction: a timer tick with a frame read. *)
UpdatePrediction ==
    /\ is_predicting
    /\ frameNo < MaxFrames
    /\ \E threshold \in Thresholds, out \in ClassifierOutcomes :
           PredictCall(threshold, out)
    /\ UNCHANGED <<is_predicting, calls>>
    /\ UNCHANGED <<storeVars, appVars>>

Next ==
    \/ LoadModel
    \/ Reset
    \/ AddKeypoints
    \/ Predict
    \/ TabLoadModel
    \/ TogglePredictionStart
    \/ TogglePredictionStop
    \/ UpdatePrediction

Spec == Init /\ [][Next]_vars

-----------------------------------------------------------------------------
(* The Predictor's methods with the predict calls counted: frames up to    *)
(* MaxLatencyFrames, one label list.                                       *)

CountedLoadModel ==
    /\ \E model_path \in Paths :
         /\ LoadCall(model_path, <<"A", "B">>)
         /\ calls' = IF load_model(predictor, model_path, <<"A", "B">>).ok
                     THEN 0 ELSE calls
    /\ UNCHANGED is_predicting
    /\ UNCHANGED <<storeVars, appVars>>

CountedReset ==
    /\ ResetCall
    /\ calls' = 0
    /\ UNCHANGED is_predicting
    /\ UNCHANGED <<storeVars, appVars>>

CountedAddKeypoints ==
    /\ frameNo < MaxLatencyFrames
    /\ AddKeypointsCall
    /\ UNCHANGED <<is_predicting, calls>>
    /\ UNCHANGED <<storeVars, appVars>>

CountedPredict ==
    /\ frameNo < MaxLatencyFrames
    /\ calls < MaxLatencyFrames
    /\ \E threshold \in Thresholds, out \in ClassifierOutcomes :
           PredictCall(threshold, out)
    /\ calls' = calls + 1
    /\ UNCHANGED is_predicting
    /\ UNCHANGED <<storeVars, appVars>>

LatencyNext ==
    \/ CountedLoadModel
    \/ CountedReset
    \/ CountedAddKeypoints
    \/ CountedPredict

LatencySpec == Init /\ [][LatencyNext]_vars

-----------------------------------------------------------------------------
(* The sequence store on its own: save_sequence and load_sequence over     *)
(* directories in every layout.  The prediction pipeline stays idle.       *)

PredictorIdle ==
    /\ predictor = Predictor_init
    /\ is_predicting = FALSE
    /\ result = NoResult
    /\ frameNo = 0
    /\ pushed = 0
    /\ rawLog = << >>
    /\ boundLabels = << >>
    /\ calls = 0
    /\ lastStable = NoPair

(* No manager has listed labels, no capture runs, nothing was extracted. *)
AppIdle ==
    /\ dm_labels = << >>
    /\ worker = NoWorker
    /\ extract = NoExtraction
    /\ tab = IdleTab
    /\ repair = NoRepair

(* A dataset left by an earlier version: label A with sequence 0 in the    *)
(* legacy layout (complete or with frame files missing) or empty.          *)
LegacyDisk(files) ==
    [EmptyDisk EXCEPT !["A"] =
        [EmptyLabelDir EXCEPT !.seqs[0] = [EmptySeqDir EXCEPT !.frames = files]]]

StoreInit ==
    /\ PredictorIdle
    /\ disk \in {EmptyDisk} \cup {LegacyDisk(f) : f \in LegacyLayouts \cup {NoFrames}}
    /\ sres = NoStoreResult
    /\ saved = NothingSaved
    /\ live = IF disk = EmptyDisk THEN {} ELSE {<<"A", 0>>}
    /\ AppIdle

SaveOutcomes == {"ok", "mkdir_error", "array_error", "write_error"}

WriteOutcomes == {"ok", "no_file", "partial"}

(* A call of save_sequence (by save_captured_sequence or the repair        *)
(* worker); sequences are saved under label A, label B stays absent.       *)
SaveSequence ==
    /\ \E label \in {"A"}, idx \in Indices, seq \in Sequences,
          outcome \in SaveOutcomes :
         LET r == save_sequence(disk, label, idx, seq, outcome) IN
         /\ disk' = r.d
         /\ sres' = [NoStoreResult EXCEPT !.op = "save_sequence",
                        !.label = label, !.idx = idx, !.ok = r.ok,
                        !.how = outcome]
         /\ saved' = [saved EXCEPT ![label][idx] =
                         IF r.ok THEN seq
                         ELSE IF outcome = "write_error" THEN NoFile
                         ELSE @]
         /\ live' = IF outcome = "mkdir_error" THEN live
                    ELSE live \cup {<<label, idx>>}
    /\ UNCHANGED <<predVars, appVars>>

(* A call of save_sequence that the end of the process cuts off; the      *)
(* sequence being saved is SeqY, over whatever the key held.               *)
SaveSequenceInterrupted ==
    /\ \E label \in {"A"}, idx \in Indices, seq \in {SeqY},
          point \in InterruptPoints :
         /\ disk' = save_sequence_interrupted(disk, label, idx, seq, point)
         /\ sres' = [NoStoreResult EXCEPT !.op = "save_sequence_interrupted",
                        !.label = label, !.idx = idx, !.ret = seq,
                        !.how = point]
         /\ saved' = [saved EXCEPT ![label][idx] =
                         IF point = "after_save" THEN seq
                         ELSE IF point = "in_save" THEN NoFile
                         ELSE @]
         /\ live' = IF point = "before_makedirs" THEN live
                    ELSE live \cup {<<label, idx>>}
    /\ UNCHANGED <<predVars, appVars>>

(* A call of load_sequence (by load_all_data or the browser). *)
LoadSequence ==
    /\ \E label \in Labels, idx \in Indices, write \in WriteOutcomes :
         LET r == load_sequence(disk, label, idx, SEQUENCE_LENGTH, write) IN
         /\ disk' = r.d
         /\ sres' = [NoStoreResult EXCEPT !.op = "load_sequence",
                        !.label = label, !.idx = idx, !.ret = r.ret,
                        !.ok = (r.ret # NoneSeq), !.how = write]
    /\ UNCHANGED <<saved, live>>
    /\ UNCHANGED <<predVars, appVars>>

StoreNext ==
    \/ SaveSequence
    \/ SaveSequenceInterrupted
    \/ LoadSequence

StoreSpec == StoreInit /\ [][StoreNext]_vars

-----------------------------------------------------------------------------
(* The dataset: labels and sequences created, listed, renamed and deleted  *)
(* through DatasetManager, LabelManager and the browser tab.               *)

DatasetInit ==
    /\ PredictorIdle
    /\ disk \in {EmptyDisk, LegacyDisk(LegacyMissing5)}
    /\ sres = NoStoreResult
    /\ saved = NothingSaved
    /\ live = IF disk = EmptyDisk THEN {} ELSE {<<"A", 0>>}
    /\ AppIdle

CaptureOutcomes == {"ok", "mkdir_error"}

(* create_label_directory, called by DatasetManager.add_label. *)
CreateLabelDirectory ==
    /\ \E label \in Labels :
         LET r == create_label_directory(disk, label) IN
         /\ disk' = r.d
         /\ sres' = [NoStoreResult EXCEPT !.op = "create_label_directory",
                        !.label = label, !.ok = r.ok]
    /\ UNCHANGED <<saved, live>>
    /\ UNCHANGED <<predVars, appVars>>

(* DatasetManager.save_captured_sequence, called by the capture worker     *)
(* with the middle frame as preview.  Signs are captured under label A;    *)
(* label B gets sequences by a rename.                                     *)
SaveCapturedSequence ==
    /\ \E label \in {"A"}, seq \in Sequences, outcome \in CaptureOutcomes :
         LET r == save_captured_sequence(disk, label, seq, TRUE, outcome) IN
         /\ r.idx \in Indices
         /\ disk' = r.d
         /\ sres' = [NoStoreResult EXCEPT !.op = "save_captured_sequence",
                        !.label = label, !.idx = r.idx, !.ok = r.ok,
                        !.how = outcome]
         /\ live' = IF r.ok THEN live \cup {<<label, r.idx>>} ELSE live
    /\ UNCHANGED saved
    /\ UNCHANGED <<predVars, appVars>>

(* delete_sequence, called by BrowserTab.delete_sequence and               *)
(* DatasetManager.delete_label_sequence.                                   *)
DeleteSequence ==
    /\ \E label \in Labels, idx \in Indices, os_error \in BOOLEAN :
         LET r == delete_sequence(disk, label, idx, os_error) IN
         /\ os_error => disk[label].seqs[idx].exists
         /\ disk' = r.d
         /\ sres' = [NoStoreResult EXCEPT !.op = "delete_sequence",
                        !.label = label, !.idx = idx, !.ok = r.ok,
                        !.how = IF ~disk[label].seqs[idx].exists THEN "absent"
                                ELSE IF os_error THEN "os_error"
                                ELSE "removed"]
         /\ live' = IF r.ok THEN live \ {<<label, idx>>} ELSE live
    /\ UNCHANGED saved
    /\ UNCHANGED <<predVars, appVars>>

(* delete_label, called by LabelManager.delete. *)
DeleteLabel ==
    /\ \E label \in Labels, os_error \in BOOLEAN :
         LET r == delete_label(disk, label, os_error) IN
         /\ os_error => disk[label].exists
         /\ disk' = r.d
         /\ sres' = [NoStoreResult EXCEPT !.op = "delete_label",
                        !.label = label, !.ok = r.ok,
                        !.how = IF ~disk[label].exists THEN "absent"
                                ELSE IF os_error THEN "os_error"
                                ELSE "removed"]
         /\ live' = IF r.ok THEN {k \in live : k[1] # label} ELSE live
    /\ UNCHANGED saved
    /\ UNCHANGED <<predVars, appVars>>

(* rename_label, called by LabelManager.rename. *)
RenameLabel ==
    /\ \E old_label \in Labels, new_label \in Labels, os_error \in BOOLEAN :
         LET r == rename_label(disk, old_label, new_label, os_error) IN
         /\ os_error => (disk[old_label].exists /\ ~disk[new_label].exists)
         /\ disk' = r.d
         /\ sres' = [NoStoreResult EXCEPT !.op = "rename_label",
                        !.label = old_label, !.other = new_label,
                        !.ok = r.ok]
         /\ live' = IF r.ok
                    THEN {k \in live : k[1] # old_label} \cup
                         {<<new_label, k[2]>> : k \in {k \in live : k[1] = old_label}}
                    ELSE live
    /\ UNCHANGED saved
    /\ UNCHANGED <<predVars, appVars>>

(* BrowserTab.refresh_sequences for the selected label. *)
RefreshSequences ==
    /\ \E label \in Labels :
         sres' = [NoStoreResult EXCEPT !.op = "refresh_sequences",
                     !.label = label,
                     !.listed = refresh_sequences(disk, label)]
    /\ UNCHANGED <<disk, saved, live>>
    /\ UNCHANGED <<predVars, appVars>>

(* DatasetManager.load_all_data; ok: some sequence was loaded. *)
LoadAllData ==
    /\ \E write \in {"ok", "no_file"} :
         LET r == load_all_data(disk, write) IN
         /\ disk' = r.d
         /\ sres' = [NoStoreResult EXCEPT !.op = "load_all_data",
                        !.ok = (r.loaded # {}), !.how = write,
                        !.listed = r.keys]
    /\ UNCHANGED <<saved, live>>
    /\ UNCHANGED <<predVars, appVars>>

DatasetNext ==
    \/ CreateLabelDirectory
    \/ SaveCapturedSequence
    \/ DeleteSequence
    \/ DeleteLabel
    \/ RenameLabel
    \/ RefreshSequences
    \/ LoadAllData

DatasetSpec == DatasetInit /\ [][DatasetNext]_vars

-----------------------------------------------------------------------------
(* Validation and statistics: a DatasetManager with a cached label list,   *)
(* while the dataset directory is changed by other managers, the browser   *)
(* or from outside.                                                        *)

ValidateInit ==
    /\ PredictorIdle
    /\ disk = WideEmptyDisk
    /\ sres = NoStoreResult
    /\ saved = NothingSaved
    /\ live = {}
    /\ AppIdle

(* A sequence captured by another manager. *)
OtherCapture ==
    /\ \E label \in Labels :
         LET r == save_captured_sequence(disk, label, SeqX, TRUE, "ok") IN
         /\ r.idx \in WideIndices
         /\ disk' = r.d
    /\ sres' = NoStoreResult
    /\ UNCHANGED <<saved, live, dm_labels, worker, extract, tab, repair>>
    /\ UNCHANGED predVars

OtherDeleteSequence ==
    /\ \E label \in Labels, idx \in WideIndices :
         /\ disk[label].seqs[idx].exists
         /\ disk' = delete_sequence(disk, label, idx, FALSE).d
    /\ sres' = NoStoreResult
    /\ UNCHANGED <<saved, live, dm_labels, worker, extract, tab, repair>>
    /\ UNCHANGED predVars

OtherCreateLabel ==
    /\ \E label \in Labels : disk' = create_label_directory(disk, label).d
    /\ sres' = NoStoreResult
    /\ UNCHANGED <<saved, live, dm_labels, worker, extract, tab, repair>>
    /\ UNCHANGED predVars

OtherDeleteLabel ==
    /\ \E label \in Labels :
         /\ disk[label].exists
         /\ disk' = delete_label(disk, label, FALSE).d
    /\ sres' = NoStoreResult
    /\ UNCHANGED <<saved, live, dm_labels, worker, extract, tab, repair>>
    /\ UNCHANGED predVars

OtherRenameLabel ==
    /\ \E old_label \in Labels, new_label \in Labels :
         /\ rename_label(disk, old_label, new_label, FALSE).ok
         /\ disk' = rename_label(disk, old_label, new_label, FALSE).d
    /\ sres' = NoStoreResult
    /\ UNCHANGED <<saved, live, dm_labels, worker, extract, tab, repair>>
    /\ UNCHANGED predVars

(* DatasetManager.refresh_labels *)
RefreshLabels ==
    /\ dm_labels' = get_dataset_labels(disk)
    /\ sres' = NoStoreResult
    /\ UNCHANGED <<disk, saved, live, worker, extract, tab, repair>>
    /\ UNCHANGED predVars

(* DatasetManager.add_label *)
AddLabel ==
    /\ \E label \in Labels :
         LET r == add_label(dm_labels, disk, label) IN
         /\ disk' = r.d
         /\ dm_labels' = r.labels
         /\ sres' = [NoStoreResult EXCEPT !.op = "add_label",
                        !.label = label, !.ok = r.ok]
    /\ UNCHANGED <<saved, live, worker, extract, tab, repair>>
    /\ UNCHANGED predVars

(* DatasetManager.validate_dataset *)
ValidateDataset ==
    /\ sres' = [NoStoreResult EXCEPT !.op = "validate_dataset",
                   !.ret = validate_dataset(dm_labels, disk)]
    /\ UNCHANGED <<disk, saved, live, dm_labels, worker, extract, tab, repair>>
    /\ UNCHANGED predVars

(* get_dataset_stats, called by DatasetManager.get_stats *)
GetDatasetStats ==
    /\ sres' = [NoStoreResult EXCEPT !.op = "get_dataset_stats",
                   !.ret = get_dataset_stats(disk)]
    /\ UNCHANGED <<disk, saved, live, dm_labels, worker, extract, tab, repair>>
    /\ UNCHANGED predVars

ValidateNext ==
    \/ OtherCapture
    \/ OtherDeleteSequence
    \/ OtherCreateLabel
    \/ OtherDeleteLabel
    \/ OtherRenameLabel
    \/ RefreshLabels
    \/ AddLabel
    \/ ValidateDataset
    \/ GetDatasetStats

ValidateSpec == ValidateInit /\ [][ValidateNext]_vars

-----------------------------------------------------------------------------
(* A capture run of the dataset tab: the worker thread, the tab that       *)
(* starts it and asks it to stop, and the browser deleting sequences       *)
(* meanwhile.  Everything is captured under label A.                       *)

CaptureInit ==
    /\ PredictorIdle
    /\ disk = EmptyDisk
    /\ sres = NoStoreResult
    /\ saved = NothingSaved
    /\ live = {}
    /\ AppIdle

(* DatasetTab.toggle_camera, a click on the camera button. *)
ToggleCamera ==
    /\ tab.phase = "open"
    /\ tab.start_camera_btn
    /\ \E opened \in BOOLEAN : tab' = toggle_camera(tab, opened)
    /\ UNCHANGED <<storeVars, dm_labels, worker, extract, repair>>
    /\ UNCHANGED predVars

(* DatasetTab.update_preview, a tick of the preview timer: a camera frame  *)
(* is read.                                                                *)
UpdatePreview ==
    /\ tab.phase = "open"
    /\ tab.preview_timer
    /\ tab' = [tab EXCEPT !.tick = 1 - @]
    /\ UNCHANGED <<storeVars, dm_labels, worker, extract, repair>>
    /\ UNCHANGED predVars

(* DatasetTab.start_capture, a click on the capture button with a label    *)
(* entered, the camera capturing and the capture confirmed: add_label,     *)
(* then a new worker is started.  While a repair runs its window-modal     *)
(* progress dialog (BrowserTab.repair_dataset) keeps clicks from the       *)
(* window, so no capture is started then.                                  *)
StartCapture ==
    /\ tab.phase = "open"
    /\ repair.pc \in {"none", "done"}
    /\ tab.capture_btn
    /\ tab.camera
    /\ \E num_sequences \in 1..MaxSequences :
         worker' = NewWorker(num_sequences)
    /\ tab' = start_capture_controls(tab)
    /\ disk' = add_label(dm_labels, disk, "A").d
    /\ dm_labels' = add_label(dm_labels, disk, "A").labels
    /\ UNCHANGED <<sres, saved, live, extract, repair>>
    /\ UNCHANGED predVars

WorkerCheck ==
    /\ worker.pc = "check"
    /\ worker' = worker_check(worker)
    /\ UNCHANGED <<storeVars, dm_labels, extract, tab, repair>>
    /\ UNCHANGED predVars

(* CaptureWorker.run, lines 42-50 and 65-67: capture_sequence reads the    *)
(* camera and returns, or raises and the run ends.                         *)
WorkerCaptureSequence ==
    /\ worker.pc = "capture"
    /\ \/ \E seq \in Sequences, fail \in ReadFailures \cup {SEQUENCE_LENGTH} :
            worker' = frames_ready(worker,
                          capture_sequence(seq, SEQUENCE_LENGTH, fail))
       \/ worker' = worker_except(worker)
    /\ UNCHANGED <<storeVars, dm_labels, extract, tab, repair>>
    /\ UNCHANGED predVars

(* CaptureWorker.run, lines 52-60: the preview is the middle frame when    *)
(* there are frames; a failed save ends the run.                           *)
WorkerSave ==
    /\ worker.pc = "save"
    /\ \E outcome \in CaptureOutcomes :
         LET r == save_captured_sequence(disk, "A", worker.keypoints_list,
                                         worker.frames > 0, outcome)
         IN
         /\ r.idx \in Indices
         /\ disk' = r.d
         /\ worker' = after_save(IF r.ok THEN emit(worker, "saved", 0)
                                 ELSE emit(worker, "save_failed", 0),
                                 r.ok)
    /\ UNCHANGED <<sres, saved, live, dm_labels, extract, tab, repair>>
    /\ UNCHANGED predVars

(* DatasetTab.on_capture_finished, the slot of the worker's finished       *)
(* signal, run by the tab's thread.                                        *)
OnCaptureFinished ==
    /\ tab.phase = "open"
    /\ worker.pc = "done"
    /\ ~worker.delivered
    /\ worker' = [worker EXCEPT !.delivered = TRUE]
    /\ tab' = on_capture_finished(tab)
    /\ UNCHANGED <<storeVars, dm_labels, extract, repair>>
    /\ UNCHANGED predVars

(* DatasetTab.cleanup with a worker running: CaptureWorker.stop, then the  *)
(* tab's thread waits for the worker.                                      *)
Stop ==
    /\ tab.phase = "open"
    /\ worker.pc \in {"check", "capture", "save"}
    /\ worker' = [worker EXCEPT !.is_running = FALSE]
    /\ tab' = [tab EXCEPT !.phase = "closing"]
    /\ UNCHANGED <<storeVars, dm_labels, extract, repair>>
    /\ UNCHANGED predVars

(* DatasetTab.cleanup, after the wait or with no worker running. *)
Cleanup ==
    /\ tab.phase # "closed"
    /\ worker.pc \in {"none", "done"}
    /\ tab' = cleanup(tab)
    /\ UNCHANGED <<storeVars, dm_labels, worker, extract, repair>>
    /\ UNCHANGED predVars

(* BrowserTab.delete_sequence while the dataset tab captures. *)
BrowserDeleteSequence ==
    /\ tab.phase = "open"
    /\ \E idx \in Indices :
         /\ disk["A"].seqs[idx].exists
         /\ disk' = delete_sequence(disk, "A", idx, FALSE).d
    /\ UNCHANGED <<sres, saved, live, appVars>>
    /\ UNCHANGED predVars

CaptureNext ==
    \/ ToggleCamera
    \/ UpdatePreview
    \/ StartCapture
    \/ WorkerCheck
    \/ WorkerCaptureSequence
    \/ WorkerSave
    \/ OnCaptureFinished
    \/ Stop
    \/ Cleanup
    \/ BrowserDeleteSequence

CaptureSpec == CaptureInit /\ [][CaptureNext]_vars

-----------------------------------------------------------------------------
(* The two background workers that write sequences: the dataset tab's      *)
(* CaptureWorker and the browser tab's RepairDatasetWorker, on label "A".  *)
(* The label folder is empty or holds one sequence directory that has a    *)
(* preview image and no keypoints.                                         *)
WritersInit ==
    /\ PredictorIdle
    /\ disk \in {EmptyDisk, save_preview_image(EmptyDisk, "A", 0).d}
    /\ sres = NoStoreResult
    /\ saved = NothingSaved
    /\ live = {}
    /\ AppIdle

(* BrowserTab.repair_dataset: the worker is created and started; nothing   *)
(* looks at the dataset tab's capture worker.                              *)
StartRepair ==
    /\ tab.phase = "open"
    /\ repair.pc \in {"none", "done"}
    /\ repair' = [NoRepair EXCEPT !.pc = "scan"]
    /\ UNCHANGED <<storeVars, dm_labels, worker, extract, tab>>
    /\ UNCHANGED predVars

(* RepairDatasetWorker.run, lines 142-159: the label folders are listed,   *)
(* then the loose images of the folder and its highest index.              *)
RepairScan ==
    /\ repair.pc = "scan"
    /\ IF ~disk["A"].exists
       THEN repair' = [repair EXCEPT !.pc = "existing"]
       ELSE \E loose_images \in 0..MaxLooseImages :
              repair' = [repair EXCEPT
                           !.pc = "import",
                           !.todo = loose_images,
                           !.next_idx = IF loose_images > 0
                                        THEN repair_next_idx(disk, "A")
                                        ELSE 0]
    /\ UNCHANGED <<storeVars, dm_labels, worker, extract, tab>>
    /\ UNCHANGED predVars

(* RepairDatasetWorker.run, lines 161-186: the next loose image; an image  *)
(* cv2.imread cannot read is passed over.                                  *)
RepairImport ==
    /\ repair.pc = "import"
    /\ IF repair.todo = 0
       THEN /\ repair' = [repair EXCEPT !.pc = "existing"]
            /\ UNCHANGED disk
       ELSE \E readable \in BOOLEAN :
              IF readable
              THEN /\ repair.next_idx \in Indices
                   /\ disk' = repair_import(disk, "A", repair.next_idx)
                   /\ repair' = [repair EXCEPT
                                   !.todo = @ - 1,
                                   !.next_idx = @ + 1,
                                   !.written = @ \cup {repair.next_idx}]
              ELSE /\ repair' = [repair EXCEPT !.todo = @ - 1]
                   /\ UNCHANGED disk
    /\ UNCHANGED <<sres, saved, live, dm_labels, worker, extract, tab>>
    /\ UNCHANGED predVars

(* RepairDatasetWorker.run, lines 189-225: the pass over the sequence      *)
(* directories, then finished is emitted.                                  *)
RepairExisting ==
    /\ repair.pc = "existing"
    /\ LET keys == IF disk["A"].exists THEN repair_existing_keys(disk, "A")
                   ELSE {}
       IN
       /\ disk' = repair_existing(disk, "A", keys)
       /\ repair' = [repair EXCEPT !.pc = "done", !.written = @ \cup keys]
    /\ UNCHANGED <<sres, saved, live, dm_labels, worker, extract, tab>>
    /\ UNCHANGED predVars

WritersNext ==
    \/ ToggleCamera
    \/ StartCapture
    \/ WorkerCheck
    \/ WorkerCaptureSequence
    \/ WorkerSave
    \/ OnCaptureFinished
    \/ StartRepair
    \/ RepairScan
    \/ RepairImport
    \/ RepairExisting

WritersSpec == WritersInit /\ [][WritersNext]_vars

-----------------------------------------------------------------------------
(* Landmark extraction on its own: extract_keypoints applied to detection  *)
(* results.                                                                *)

ExtractInit ==
    /\ PredictorIdle
    /\ disk = EmptyDisk
    /\ sres = NoStoreResult
    /\ saved = NothingSaved
    /\ live = {}
    /\ AppIdle

ExtractKeypoints ==
    /\ \E results \in DetectionResults :
         extract' = [done |-> TRUE, results |-> results,
                     keypoints |-> extract_keypoints(results)]
    /\ UNCHANGED <<dm_labels, worker, tab, repair>>
    /\ UNCHANGED <<predVars, storeVars>>

ExtractNext == ExtractKeypoints

ExtractSpec == ExtractInit /\ [][ExtractNext]_vars

-----------------------------------------------------------------------------
(* Helpers of the properties.                                              *)

Min(a, b) == IF a < b THEN a ELSE b

(* The largest probability of a distribution. *)
RawConfidence(out) == CHOOSE c \in {out[i] : i \in DOMAIN out} :
                          \A i \in DOMAIN out : out[i] <= c

(* The last n entries of a sequence (all of it when shorter). *)
LastN(xs, n) == SubSeq(xs, Len(xs) - Min(Len(xs), n) + 1, Len(xs))

AllSame(xs) == \A i, j \in DOMAIN xs : xs[i] = xs[j]

(* The last call was a predict call whose classification succeeded. *)
Classified(r) == r.op = "predict" /\ r.invoked /\ ~r.raised

LastStablePair(p) == <<p.current_prediction, p.current_confidence>>

-----------------------------------------------------------------------------
(* C1: after a predict call with a loaded model, a full buffer and a       *)
(* successful classification, the returned label is non-null exactly when  *)
(* the history (with the new index pushed) holds C entries, all the same   *)
(* class, and the confidence of this result is strictly above the          *)
(* threshold; the returned confidence is always the raw confidence of      *)
(* this result.                                                            *)
C1_EmissionRule ==
    Classified(result) =>
        /\ (result.label # None) <=>
              /\ Len(predictor.predictions) = PREDICTION_CONSISTENCY_FRAMES
              /\ AllSame(predictor.predictions)
              /\ RawConfidence(result.out) > result.threshold
        /\ result.conf = RawConfidence(result.out)

C1_Witness ==
    /\ Classified(result)
    /\ result.label # None
    /\ result.threshold = PREDICTION_CONFIDENCE_THRESHOLD

(* C2: a result whose class differs from the one before it yields no       *)
(* stable label, also right after a stable emission; a stable label is     *)
(* only ever returned when the last C raw results agree.                   *)
C2_NotSticky ==
    [][/\ ( /\ result.label # None
            /\ Classified(result')
            /\ Len(rawLog') = Len(rawLog) + 1
            /\ rawLog'[Len(rawLog')] # rawLog[Len(rawLog)] )
          => result'.label = None
       /\ result'.label # None
          => /\ Len(rawLog') >= PREDICTION_CONSISTENCY_FRAMES
             /\ AllSame(LastN(rawLog', PREDICTION_CONSISTENCY_FRAMES))
      ]_vars

(* A stable label for one class, then a switch, then a stable label for    *)
(* the other class after C agreeing results.                               *)
C2_Witness ==
    /\ result.label # None
    /\ Len(rawLog) >= 2 * PREDICTION_CONSISTENCY_FRAMES
    /\ LET n == Len(rawLog) - PREDICTION_CONSISTENCY_FRAMES IN
       /\ rawLog[n] # rawLog[Len(rawLog)]
       /\ AllSame(SubSeq(rawLog, n - PREDICTION_CONSISTENCY_FRAMES + 1, n))

(* C3: a predict call in which the classifier raises returns (None, 0),    *)
(* leaves the history, the last stable pair, the model and the labels as   *)
(* they were, and leaves the predictor able to classify the next frame.    *)
C3_AdapterFailure ==
    [][(result'.op = "predict" /\ result'.raised) =>
          /\ result'.label = None
          /\ result'.conf = 0
          /\ predictor'.predictions = predictor.predictions
          /\ LastStablePair(predictor') = LastStablePair(predictor)
          /\ predictor'.model = predictor.model
          /\ predictor'.labels = predictor.labels
          /\ is_model_loaded(predictor')
          /\ Len(predictor'.sequence) = SEQUENCE_LENGTH
      ]_vars

C3_Witness ==
    /\ result.op = "predict"
    /\ result.raised
    /\ predictor.predictions # << >>

(* C4: a predict call that leaves fewer than L frames in the buffer does   *)
(* not invoke the classifier, returns (None, 0) and leaves the history     *)
(* and the last stable pair unchanged; every window handed to the          *)
(* classifier has exactly L frames.                                        *)
C4_Filling ==
    [][/\ (result'.op = "predict" /\ Len(predictor'.sequence) < SEQUENCE_LENGTH)
          => /\ ~result'.invoked
             /\ result'.label = None
             /\ result'.conf = 0
             /\ predictor'.predictions = predictor.predictions
             /\ LastStablePair(predictor') = LastStablePair(predictor)
       /\ result'.invoked => Len(result'.window) = SEQUENCE_LENGTH
      ]_vars

C4_Witness ==
    /\ result.op = "predict"
    /\ ~result.invoked
    /\ Len(predictor.sequence) = SEQUENCE_LENGTH - 1

(* C5: the buffer never holds more than L frames, and it holds the last    *)
(* min(n, L) of the n frames pushed since it was last emptied, oldest      *)
(* first.                                                                  *)
C5_RingBuffer ==
    /\ Len(predictor.sequence) <= SEQUENCE_LENGTH
    /\ LET m == Min(pushed, SEQUENCE_LENGTH) IN
       predictor.sequence = [i \in 1..m |-> frameNo - m + i]

C5_Witness ==
    /\ pushed > SEQUENCE_LENGTH + 1
    /\ predictor.sequence[1] = pushed - SEQUENCE_LENGTH + 1

(* C6: counting the frames pushed since the last reset, the buffer is full *)
(* exactly when at least L frames were pushed: not full for pushes         *)
(* 1..L-1, full from push L on and under every further push, until the     *)
(* next reset.                                                             *)
C6_FullnessMonotonic ==
    (Len(predictor.sequence) = SEQUENCE_LENGTH) <=> (pushed >= SEQUENCE_LENGTH)

C6_Witness ==
    /\ pushed > SEQUENCE_LENGTH
    /\ Len(predictor.sequence) = SEQUENCE_LENGTH

(* C7: the history never holds more than C entries and is always the last  *)
(* min(k, C) of the k raw class indices classified since the last reset,   *)
(* oldest first.                                                           *)
C7_HistoryFifo ==
    /\ Len(predictor.predictions) <= PREDICTION_CONSISTENCY_FRAMES
    /\ predictor.predictions = LastN(rawLog, PREDICTION_CONSISTENCY_FRAMES)

C7_Witness ==
    /\ Len(rawLog) > PREDICTION_CONSISTENCY_FRAMES
    /\ rawLog[1] # rawLog[Len(rawLog)]
    /\ Len(predictor.predictions) = PREDICTION_CONSISTENCY_FRAMES

(* C8: a reset() call empties the buffer and the history, clears the last  *)
(* stable pair to (None, 0) and leaves the model and the labels unchanged. *)
C8_ResetEffect ==
    [][result'.op = "reset" =>
          /\ predictor'.sequence = << >>
          /\ predictor'.predictions = << >>
          /\ LastStablePair(predictor') = <<None, 0>>
          /\ predictor'.model = predictor.model
          /\ predictor'.labels = predictor.labels
      ]_vars

(* A reset of a predictor with a model and labels, after the session had   *)
(* pushed enough frames for a stable label.                                *)
C8_Witness ==
    /\ result.op = "reset"
    /\ is_model_loaded(predictor)
    /\ predictor.labels # << >>
    /\ frameNo >= SEQUENCE_LENGTH + PREDICTION_CONSISTENCY_FRAMES - 1

(* C9: every frame in the buffer arrived in the current session, the       *)
(* history holds no more entries than full windows the session has seen,   *)
(* and a last stable pair exists only when the session has pushed enough   *)
(* frames (L + C - 1) to produce one: nothing from before the start of     *)
(* prediction or the load of a model takes part.                           *)
C9_SessionStartsFilling ==
    /\ \A i \in DOMAIN predictor.sequence : predictor.sequence[i] \in 1..frameNo
    /\ Len(predictor.predictions) <= frameNo - Min(frameNo, SEQUENCE_LENGTH - 1)
    /\ predictor.current_prediction # None
         => frameNo >= SEQUENCE_LENGTH + PREDICTION_CONSISTENCY_FRAMES - 1

(* The earliest stable label of a session started from the tab. *)
C9_Witness ==
    /\ is_predicting
    /\ result.label # None
    /\ frameNo = SEQUENCE_LENGTH + PREDICTION_CONSISTENCY_FRAMES - 1

(* C10: while a model is loaded, the label list of the predictor is the    *)
(* list given to the last successful load_model call (no list given: no    *)
(* labels, class indices are emitted).                                     *)
C10_LabelsBound ==
    is_model_loaded(predictor) => predictor.labels = boundLabels

(* C11: the class index a successful classification pushes is an index of  *)
(* the largest probability, no lower index holds that probability, and     *)
(* the returned confidence is the probability at that index.               *)
C11_ArgmaxLowestTie ==
    Classified(result) =>
        LET h == predictor.predictions
            idx == h[Len(h)]
        IN /\ Len(h) > 0
           /\ idx \in 0..(Len(result.out) - 1)
           /\ \A j \in DOMAIN result.out : result.out[j] <= result.out[idx + 1]
           /\ \A j \in 1..idx : result.out[j] < result.out[idx + 1]
           /\ result.conf = result.out[idx + 1]

(* A tie was classified. *)
C11_Witness ==
    /\ Classified(result)
    /\ result.out[1] = result.out[2]
    /\ predictor.predictions[Len(predictor.predictions)] = 0

-----------------------------------------------------------------------------
(* Helpers of the store properties.                                        *)

SeqDir(d, label, idx) == d[label].seqs[idx]

(* A sequence directory in the legacy layout only: frame files and no      *)
(* consolidated file.                                                      *)
IsLegacy(dir) ==
    /\ dir.exists
    /\ dir.keypoints = NoFile
    /\ \E f \in 0..(SEQUENCE_LENGTH - 1) : f \in DOMAIN dir.frames

(* The step is a load_sequence call on a directory in the legacy layout. *)
LegacyLoadStep ==
    /\ sres'.op = "load_sequence"
    /\ IsLegacy(SeqDir(disk, sres'.label, sres'.idx))

(* What any load of the key returns in a state. *)
LoadsAs(d, label, idx, arr) ==
    \A w \in WriteOutcomes :
        load_sequence(d, label, idx, SEQUENCE_LENGTH, w).ret = arr

(* C12: for every key, while the last thing written to it is a successful  *)
(* save_sequence, load_sequence of that key returns the frames given to    *)
(* that save, in order, whatever the directory held before the save.       *)
C12_RoundTrip ==
    \A l \in Labels, i \in Indices :
        saved[l][i] # NoFile => LoadsAs(disk, l, i, saved[l][i])

(* A save over a directory that holds legacy frame files. *)
C12_Witness ==
    /\ sres.op = "save_sequence"
    /\ sres.ok
    /\ SeqDir(disk, sres.label, sres.idx).frames # NoFrames
    /\ saved[sres.label][sres.idx] \in Sequences

C14_MigrationBestEffort ==
    [][LegacyLoadStep =>
          LET l == sres'.label
              i == sres'.idx
          IN
          /\ sres'.ret # NoneSeq
          /\ sres'.ret = legacy_frames(SeqDir(disk, l, i).frames, SEQUENCE_LENGTH)
          /\ sres'.how = "ok" => SeqDir(disk', l, i).keypoints = sres'.ret
          /\ SeqDir(disk', l, i).frames = SeqDir(disk, l, i).frames
          /\ \A l2 \in Labels, i2 \in Indices :
                <<l2, i2>> # <<l, i>> => SeqDir(disk', l2, i2) = SeqDir(disk, l2, i2)
      ]_vars

(* The write failed and the sequence was returned all the same. *)
C14_Witness ==
    /\ sres.op = "load_sequence"
    /\ sres.how = "no_file"
    /\ sres.ret # NoneSeq
    /\ IsLegacy(SeqDir(disk, sres.label, sres.idx))

(* C15: load_sequence of a key whose label or sequence directory does not  *)
(* exist returns None and leaves the disk as it was; in every on-disk      *)
(* state a load returns None or a sequence.                                *)
C15_NotFound ==
    [][sres'.op = "load_sequence" =>
          /\ ~SeqDir(disk, sres'.label, sres'.idx).exists
                => (sres'.ret = NoneSeq /\ disk' = disk)
          /\ sres'.ret = NoneSeq \/ Len(sres'.ret) = SEQUENCE_LENGTH
      ]_vars

(* A load under a label that does not exist. *)
C15_Witness ==
    /\ sres.op = "load_sequence"
    /\ sres.ret = NoneSeq
    /\ ~disk[sres.label].exists

-----------------------------------------------------------------------------
(* Helpers of the dataset properties.                                      *)

Keys == Labels \X Indices

LiveUnder(label) == {k \in live : k[1] = label}

(* C16: the count of a label is the number of its sequence directories     *)
(* created and not removed since, whatever their layout and whatever gaps  *)
(* their indices have; the count of an absent label is 0.                  *)
C16_CountIsCardinality ==
    \A label \in Labels :
        /\ get_sequence_count(disk, label) = Cardinality(LiveUnder(label))
        /\ ~disk[label].exists => get_sequence_count(disk, label) = 0

(* A sequence below the highest index was just deleted: a legacy and a     *)
(* consolidated sequence remain, with a gap between their indices.         *)
C16_Witness ==
    /\ sres.op = "delete_sequence"
    /\ sres.how = "removed"
    /\ sres.idx = 1
    /\ LiveUnder(sres.label) = {<<sres.label, 0>>, <<sres.label, 2>>}
    /\ SeqDir(disk, sres.label, 0).frames # NoFrames
    /\ SeqDir(disk, sres.label, 2).keypoints \in Sequences
    /\ get_sequence_count(disk, sres.label) = 2

(* C17: every index an enumeration of a label's sequences lists or tries   *)
(* to load is the index of a sequence directory that exists.               *)
C17_NoDanglingIndex ==
    sres.op \in {"refresh_sequences", "load_all_data"} =>
        \A k \in sres.listed : SeqDir(disk, k[1], k[2]).exists

(* C18: a save_captured_sequence call that reports success wrote to an     *)
(* index whose directory did not exist before the call, and every          *)
(* sequence directory that existed before the call is as it was.           *)
C18_NoOverwrite ==
    [][sres'.op = "save_captured_sequence" =>
          /\ sres'.ok => ~SeqDir(disk, sres'.label, sres'.idx).exists
          /\ \A k \in Keys :
                SeqDir(disk, k[1], k[2]).exists
                    => SeqDir(disk', k[1], k[2]) = SeqDir(disk, k[1], k[2])
      ]_vars

(* C19: rename_label returns False and changes nothing when the old label  *)
(* does not exist or the new one exists; when it returns True the new      *)
(* label holds what the old one held and the old one is gone.              *)
C19_Rename ==
    [][sres'.op = "rename_label" =>
          LET old_label == sres'.label
              new_label == sres'.other
          IN
          /\ (~disk[old_label].exists \/ disk[new_label].exists)
                => (~sres'.ok /\ disk' = disk)
          /\ sres'.ok =>
                /\ disk'[new_label] = disk[old_label]
                /\ ~disk'[old_label].exists
                /\ get_label_sequences(disk', old_label) = {}
                /\ get_label_sequences(disk', new_label) =
                       get_label_sequences(disk, old_label)
          /\ ~sres'.ok => disk' = disk
      ]_vars

(* A rename onto a label that has sequences was refused, both kept. *)
C19_Witness ==
    /\ sres.op = "rename_label"
    /\ ~sres.ok
    /\ sres.label # sres.other
    /\ get_sequence_count(disk, sres.label) > 0
    /\ get_sequence_count(disk, sres.other) > 0

(* C20: a delete_sequence that returns success leaves the sequence         *)
(* directory absent and every other directory as it was; a delete_label    *)
(* that returns success leaves the label absent and every other label as   *)
(* it was; both return success and change nothing when the target is       *)
(* already absent.                                                         *)
C20_DeleteExact ==
    [][/\ sres'.op = "delete_sequence" =>
             LET l == sres'.label
                 i == sres'.idx
             IN
             /\ ~SeqDir(disk, l, i).exists => (sres'.ok /\ disk' = disk)
             /\ sres'.ok =>
                   /\ SeqDir(disk', l, i) = NoSeqDir
                   /\ disk'[l].exists = disk[l].exists
                   /\ \A k \in Keys \ {<<l, i>>} :
                         SeqDir(disk', k[1], k[2]) = SeqDir(disk, k[1], k[2])
                   /\ \A l2 \in Labels \ {l} : disk'[l2] = disk[l2]
       /\ sres'.op = "delete_label" =>
             LET l == sres'.label IN
             /\ ~disk[l].exists => (sres'.ok /\ disk' = disk)
             /\ sres'.ok =>
                   /\ disk'[l] = NoLabelDir
                   /\ \A l2 \in Labels \ {l} : disk'[l2] = disk[l2]
      ]_vars

(* A sequence with its preview was deleted, its neighbour with a preview   *)
(* and the other label's sequences are still there.                        *)
C20_Witness ==
    /\ sres.op = "delete_sequence"
    /\ sres.how = "removed"
    /\ sres.ok
    /\ ~SeqDir(disk, sres.label, sres.idx).exists
    /\ \E i \in Indices : SeqDir(disk, sres.label, i).preview
    /\ \E l \in Labels \ {sres.label} : get_sequence_count(disk, l) > 0

-----------------------------------------------------------------------------
(* C28: get_current_prediction returns the pair of the most recent predict *)
(* call that returned a label since the last reset, whatever calls         *)
(* followed it, and NoPair exactly when no call returned a label since     *)
(* the last reset.                                                         *)
C28_LastStablePair ==
    /\ get_current_prediction(predictor) = lastStable
    /\ lastStable # NoPair
          => (lastStable[1] # None /\ lastStable[2] > 0)

(* A stable pair outlived a frame that was classified without a stable     *)
(* label and whose confidence differs from the pair's.                     *)
C28_Witness ==
    /\ Classified(result)
    /\ result.label = None
    /\ lastStable # NoPair
    /\ result.conf # lastStable[2]
    /\ get_current_prediction(predictor) = lastStable

(* C29 as stated: a predict call returns a label only when at least        *)
(* L + C - 1 predict calls were made since the last reset.                 *)
C29_CallsBeforeStable ==
    (result.op = "predict" /\ result.label # None)
        => calls >= SEQUENCE_LENGTH + PREDICTION_CONSISTENCY_FRAMES - 1

(* C29 amended: a predict call returns a label only when at least          *)
(* L + C - 1 frames were pushed into the buffer since the last reset, by   *)
(* predict calls with a model loaded or by add_keypoints calls, and at     *)
(* least C of them were classified.                                        *)
C29_FramesBeforeStable ==
    (result.op = "predict" /\ result.label # None)
        => /\ pushed >= SEQUENCE_LENGTH + PREDICTION_CONSISTENCY_FRAMES - 1
           /\ Len(rawLog) >= PREDICTION_CONSISTENCY_FRAMES

(* The earliest stable emission: predict call and frame number L + C - 1. *)
C29_Witness ==
    /\ result.op = "predict"
    /\ result.label # None
    /\ pushed = SEQUENCE_LENGTH + PREDICTION_CONSISTENCY_FRAMES - 1
    /\ calls = SEQUENCE_LENGTH + PREDICTION_CONSISTENCY_FRAMES - 1

(* C30: a predict call with no model loaded returns (None, 0) and leaves   *)
(* the predictor (buffer, history, last stable pair) as it was, and no     *)
(* frame is counted as pushed.                                             *)
C30_NoModelNoEffect ==
    [][(result'.op = "predict" /\ ~is_model_loaded(predictor)) =>
          /\ result'.label = None
          /\ result'.conf = 0
          /\ ~result'.invoked
          /\ predictor' = predictor
          /\ pushed' = pushed
      ]_vars

(* A predict call without a model, frames of an earlier model still in     *)
(* the buffer.                                                             *)
C30_Witness ==
    /\ result.op = "predict"
    /\ ~is_model_loaded(predictor)
    /\ result.label = None
    /\ result.conf = 0
    /\ Len(predictor.sequence) > 0

-----------------------------------------------------------------------------
-----------------------------------------------------------------------------
(* The dataset directory as it is, for the validation claims. *)
LabelsOnDisk(d) == {l \in Labels : d[l].exists}

CountOnDisk(d, l) == Cardinality({i \in DOMAIN d[l].seqs : d[l].seqs[i].exists})

RECURSIVE SumOnDisk(_, _)
SumOnDisk(d, S) ==
    IF S = {} THEN 0
    ELSE LET l == CHOOSE x \in S : TRUE
         IN CountOnDisk(d, l) + SumOnDisk(d, S \ {l})

(* C21: a validate_dataset call leaves the store as it is and returns a    *)
(* result: a failure when fewer than 2 labels exist; otherwise, when some  *)
(* label has fewer than 5 sequences, a failure naming a label below the    *)
(* minimum with its count and the minimum 5; otherwise a success with the  *)
(* totals of labels and sequences.                                         *)
C21_Validate ==
    [][sres'.op = "validate_dataset" =>
          LET r == sres'.ret
              n == Cardinality(LabelsOnDisk(disk))
              below == {l \in LabelsOnDisk(disk) : CountOnDisk(disk, l) < 5}
          IN
          /\ disk' = disk
          /\ r.kind \in {"no_labels", "too_few_labels", "too_few_sequences",
                         "valid"}
          /\ n < 2 => (~r.ok /\ r.kind \in {"no_labels", "too_few_labels"})
          /\ (n >= 2 /\ below # {}) =>
                /\ ~r.ok
                /\ r.kind = "too_few_sequences"
                /\ r.label \in below
                /\ r.count = CountOnDisk(disk, r.label)
                /\ r.minimum = 5
          /\ (n >= 2 /\ below = {}) =>
                /\ r.ok
                /\ r.total_labels = n
                /\ r.total_sequences = SumOnDisk(disk, LabelsOnDisk(disk))
      ]_vars

(* A failure naming a label that has one sequence less than the minimum,   *)
(* the other label at the minimum.                                         *)
C21_Witness ==
    /\ sres.op = "validate_dataset"
    /\ sres.ret.kind = "too_few_sequences"
    /\ sres.ret.count = 4
    /\ \E l \in LabelsOnDisk(disk) : CountOnDisk(disk, l) = 5

(* C22: the result of a validate_dataset call is the verdict on the labels *)
(* and sequence counts on disk at the call, whatever the manager's cached  *)
(* label list holds: it is valid exactly when the disk has at least 2      *)
(* labels with at least 5 sequences each, it reports the disk's totals,    *)
(* and every cached list gives the same result.                            *)
C22_NeverStale ==
    [][sres'.op = "validate_dataset" =>
          LET r == sres'.ret IN
          /\ r.ok <=> /\ Cardinality(LabelsOnDisk(disk)) >= 2
                      /\ \A l \in LabelsOnDisk(disk) : CountOnDisk(disk, l) >= 5
          /\ r.total_labels = Cardinality(LabelsOnDisk(disk))
          /\ r.total_sequences = SumOnDisk(disk, LabelsOnDisk(disk))
          /\ \A cached \in LabelLists : validate_dataset(cached, disk) = r
      ]_vars

(* A successful validation by a manager whose cached label list is still   *)
(* empty: both labels were filled by others since it was read.             *)
C22_Witness ==
    /\ sres.op = "validate_dataset"
    /\ sres.ret.ok
    /\ dm_labels = << >>
    /\ get_dataset_labels(disk) # dm_labels

(* C23: a result of get_dataset_stats has an entry for exactly the labels  *)
(* on disk, each entry is the label's sequence count, total_labels is the  *)
(* number of labels and total_sequences the sum of the entries.            *)
C23_StatsConsistent ==
    sres.op = "get_dataset_stats" =>
        LET stats == sres.ret IN
        /\ DOMAIN stats.labels = LabelsOnDisk(disk)
        /\ \A l \in LabelsOnDisk(disk) :
              stats.labels[l] = get_sequence_count(disk, l)
        /\ stats.total_labels = Cardinality(LabelsOnDisk(disk))
        /\ stats.total_sequences = SumOnDisk(disk, LabelsOnDisk(disk))
        /\ stats.total_sequences =
              SumOnDisk(disk, DOMAIN stats.labels)

(* Statistics of two labels with different numbers of sequences, one of    *)
(* them with a gap in its indices.                                         *)
C23_Witness ==
    /\ sres.op = "get_dataset_stats"
    /\ DOMAIN sres.ret.labels = Labels
    /\ sres.ret.labels["A"] = 2
    /\ sres.ret.labels["B"] = 1
    /\ sres.ret.total_sequences = 3
    /\ ~disk["A"].seqs[0].exists

-----------------------------------------------------------------------------
(* C24: when save_sequence is cut off at any point, every later load of    *)
(* the key returns None (not found), a complete sequence that a load       *)
(* returned before the save began, or the complete new sequence, and never *)
(* the content of a file that was not written to its end.                  *)
C24_InterruptedSave ==
    [][sres'.op = "save_sequence_interrupted" =>
          LET l == sres'.label
              i == sres'.idx
              before == {load_sequence(disk, l, i, SEQUENCE_LENGTH, w).ret :
                            w \in WriteOutcomes}
          IN
          \A w \in WriteOutcomes :
              LET r == load_sequence(disk', l, i, SEQUENCE_LENGTH, w).ret IN
              /\ r # Corrupt
              /\ \/ r = NoneSeq
                 \/ r = sres'.ret
                 \/ r \in before
              /\ r # NoneSeq => Len(r) = SEQUENCE_LENGTH
      ]_vars

(* A save cut off inside np.save over a directory that holds legacy frame  *)
(* files: the file is unreadable and every load returns None.              *)
C24_Witness ==
    /\ sres.op = "save_sequence_interrupted"
    /\ sres.how = "in_save"
    /\ SeqDir(disk, sres.label, sres.idx).keypoints = Corrupt
    /\ SeqDir(disk, sres.label, sres.idx).frames # NoFrames
    /\ LoadsAs(disk, sres.label, sres.idx, NoneSeq)

-----------------------------------------------------------------------------
(* C25: once stop() was requested, a step of the capture worker leaves     *)
(* every sequence directory that is on disk as it is; if it is the save of *)
(* the sequence in progress, it either writes that whole sequence to an    *)
(* index or writes nothing; and from the head of its loop the worker ends  *)
(* the run and starts no further capture.                                  *)
C25_Cancellation ==
    [][(~worker.is_running /\ worker.pc \in {"check", "capture", "save"}
            /\ worker' # worker) =>
          /\ \A i \in Indices :
                SeqDir(disk, "A", i).exists
                    => SeqDir(disk', "A", i) = SeqDir(disk, "A", i)
          /\ worker.pc = "save" =>
                \/ disk' = disk
                \/ \E i \in Indices :
                      /\ SeqDir(disk', "A", i).keypoints = worker.keypoints_list
                      /\ \A j \in Indices \ {i} :
                            SeqDir(disk', "A", j) = SeqDir(disk, "A", j)
          /\ worker.pc = "check" =>
                (worker'.pc = "done" /\ worker'.finished # "failed")
      ]_vars

(* C26: every keypoints file that the capture path has written holds       *)
(* exactly L frames.                                                       *)
C26_ExactlyL ==
    \A i \in Indices :
        LET file == SeqDir(disk, "A", i).keypoints IN
        file \notin {NoFile, Corrupt} => Len(file) = SEQUENCE_LENGTH

-----------------------------------------------------------------------------
(* C31: a load_model call that returns False leaves the predictor as it    *)
(* was: the model loaded before, its labels, both buffers and the last     *)
(* stable pair; a predictor with a model loaded before the call has one    *)
(* after it.                                                               *)
C31_FailedLoadKeepsPredictor ==
    [][(result'.op = "load_model" /\ ~result'.ok) =>
          /\ predictor' = predictor
          /\ is_model_loaded(predictor) => is_model_loaded(predictor')
      ]_vars

-----------------------------------------------------------------------------
(* The step is a load_sequence call on a directory that holds a            *)
(* consolidated file keypoints.npy.                                        *)
ConsolidatedLoadStep ==
    /\ sres'.op = "load_sequence"
    /\ SeqDir(disk, sres'.label, sres'.idx).exists
    /\ SeqDir(disk, sres'.label, sres'.idx).keypoints # NoFile

(* C32 as stated: a load of a directory that holds keypoints.npy returns   *)
(* what the file holds and changes no file.                                *)
C32_ReturnsFileContent ==
    [][ConsolidatedLoadStep =>
          /\ sres'.ret = SeqDir(disk, sres'.label, sres'.idx).keypoints
          /\ disk' = disk
      ]_vars

(* C32 amended: a load of a directory that holds keypoints.npy returns     *)
(* the file's content when the file can be read and None when it cannot;   *)
(* in both cases the result is the same whatever legacy frame files the    *)
(* directory holds, and no file is written.                                *)
C32_ConsolidatedFirst ==
    [][ConsolidatedLoadStep =>
          LET l == sres'.label
              i == sres'.idx
              file == SeqDir(disk, l, i).keypoints
          IN
          /\ sres'.ret = IF file = Corrupt THEN NoneSeq ELSE file
          /\ disk' = disk
          /\ \A files \in LegacyLayouts \cup {NoFrames}, w \in WriteOutcomes :
                LET other == [disk EXCEPT ![l].seqs[i].frames = files]
                    r == load_sequence(other, l, i, SEQUENCE_LENGTH, w)
                IN r.ret = sres'.ret /\ r.d = other
      ]_vars

(* A load of a directory that holds a saved consolidated file next to      *)
(* legacy frame files of another content.                                  *)
C32_Witness ==
    /\ sres.op = "load_sequence"
    /\ SeqDir(disk, sres.label, sres.idx).keypoints \in Sequences
    /\ SeqDir(disk, sres.label, sres.idx).frames = LegacyMissing5
    /\ sres.ret = SeqDir(disk, sres.label, sres.idx).keypoints

-----------------------------------------------------------------------------
-----------------------------------------------------------------------------
(* The keys on disk whose sequence a load returns. *)
Loadable(d, write) ==
    {k \in Keys : load_sequence(d, k[1], k[2], SEQUENCE_LENGTH, write).ret
                      # NoneSeq}

(* C34: load_all_data returns exactly one sample for every loadable        *)
(* sequence on disk, so as many samples as the statistics' total_sequences *)
(* when every stored sequence is loadable; X and y have the same length;   *)
(* each y entry is the position of the sample's label in the returned      *)
(* list, which is the sorted list of the labels on disk.                   *)
C34_AssemblyComplete ==
    [][sres'.op = "load_all_data" =>
          LET r == load_all_data(disk, sres'.how)
              stored == {k \in Keys : SeqDir(disk, k[1], k[2]).exists}
          IN
          /\ {r.samples[n] : n \in DOMAIN r.samples} = Loadable(disk, sres'.how)
          /\ Len(r.samples) = Cardinality(Loadable(disk, sres'.how))
          /\ Loadable(disk, sres'.how) = stored
                => Len(r.X) = get_dataset_stats(disk).total_sequences
          /\ Len(r.X) = Len(r.y)
          /\ r.labels = get_dataset_labels(disk)
          /\ \A n \in DOMAIN r.y : r.labels[r.y[n] + 1] = r.samples[n][1]
      ]_vars

-----------------------------------------------------------------------------
(* C35: an add_label call for a label that exists in the dataset directory *)
(* returns False and changes neither the directory nor the manager's label *)
(* list, whatever that list holds; a call that returns True created a      *)
(* label directory that did not exist.                                     *)
C35_AddLabel ==
    [][sres'.op = "add_label" =>
          LET l == sres'.label IN
          /\ disk[l].exists =>
                (~sres'.ok /\ disk' = disk /\ dm_labels' = dm_labels)
          /\ sres'.ok => (~disk[l].exists /\ disk'[l].exists)
      ]_vars

-----------------------------------------------------------------------------
(* The positions of the run's history that hold a given signal or note. *)
LogAt(sig) == {p \in DOMAIN worker.log : worker.log[p].sig = sig}

Before(S, p) == Cardinality({q \in S : q < p})

WorkerRuns == worker.pc \in {"check", "capture", "save"}

(* C36: a run that has ended emitted finished exactly once, as its last    *)
(* signal, and a run that has not ended has not emitted it; the k-th       *)
(* progress signal carries k and comes after k successful saves;           *)
(* finished(True) comes after num_sequences successful saves; a failed     *)
(* save is followed by finished(False) and by nothing else.                *)
C36_WorkerProtocol ==
    LET log == worker.log IN
    /\ WorkerRuns => LogAt("finished") = {}
    /\ worker.pc = "done" => LogAt("finished") = {Len(log)}
    /\ \A p \in LogAt("progress") :
          /\ log[p].k = Before(LogAt("progress"), p) + 1
          /\ Before(LogAt("saved"), p) = log[p].k
    /\ \A p \in LogAt("finished") :
          log[p].k = 1 =>
              /\ Cardinality(LogAt("saved")) = worker.num_sequences
              /\ Cardinality(LogAt("progress")) = worker.num_sequences
    /\ \A p \in LogAt("save_failed") :
          /\ p + 1 = Len(log)
          /\ log[p + 1] = [sig |-> "finished", k |-> 0]

(* A run of two sequences whose second save failed: progress 1, then the   *)
(* failed save and finished(False).                                        *)
C36_Witness ==
    /\ worker.pc = "done"
    /\ worker.num_sequences = 2
    /\ Cardinality(LogAt("progress")) = 1
    /\ LogAt("save_failed") = {Len(worker.log) - 1}
    /\ worker.log[Len(worker.log)] = [sig |-> "finished", k |-> 0]

-----------------------------------------------------------------------------
(* C37: while a capture worker runs, the camera stays open, the preview    *)
(* timer is stopped and the capture and camera buttons are disabled; the   *)
(* timer and the buttons stay so until the tab has handled the worker's    *)
(* finished signal; no preview frame is read while a worker runs; and a    *)
(* new worker is started only when none runs and the finished signal of    *)
(* the one before was handled.                                             *)
C37_CameraOwnership ==
    [][/\ WorkerRuns => tab.camera
       /\ (WorkerRuns \/ (worker.pc = "done" /\ ~worker.delivered)) =>
             /\ ~tab.preview_timer
             /\ ~tab.capture_btn
             /\ ~tab.start_camera_btn
       /\ tab'.tick # tab.tick =>
             (~WorkerRuns /\ tab.preview_timer /\ worker' = worker)
       /\ (worker' # worker /\ \E n \in 1..MaxSequences : worker' = NewWorker(n)) =>
             /\ ~WorkerRuns
             /\ worker.pc = "done" => worker.delivered
      ]_vars

(* A worker at its second capture: the camera is open, the timer stopped   *)
(* and both buttons disabled.                                              *)
C37_Witness ==
    /\ worker.pc = "capture"
    /\ Cardinality(LogAt("saved")) = 1
    /\ tab.camera
    /\ ~tab.preview_timer
    /\ ~tab.capture_btn
    /\ ~tab.start_camera_btn

(* C38: no sequence key is written by both workers, so that no saved       *)
(* sequence is replaced: a step of the capture worker or of the repair     *)
(* worker that writes the keypoints file of a key finds no keypoints file  *)
(* under that key (every file there was written by one of the two).        *)
C38_SingleWriter ==
    [][\A i \in Indices :
          SeqDir(disk', "A", i).keypoints # SeqDir(disk, "A", i).keypoints =>
              SeqDir(disk, "A", i).keypoints = NoFile
      ]_vars

====
